---------------------------- MODULE Spec2Model ----------------------------
(***************************************************************************)
(* A model of the FHEON packed-ciphertext tensor evaluator                 *)
(* (stamcenter/ml-inference): the slot-level kernels of                    *)
(* FHEONANNController, the rotation-key planners, the key generators and   *)
(* the LeNet-5 / ResNet-20 drivers and server programs.                    *)
(*                                                                         *)
(* A ciphertext is modelled by what it decrypts to: a record               *)
(*   [slots |-> <<v_0, ..., v_{N-1}>>, depth |-> d]                        *)
(* where slot i of the program is slots[i+1] and depth counts the          *)
(* ciphertext-plaintext multiplications on its longest dependency path.    *)
(* A plaintext is the tuple of its N slot values.                          *)
(***************************************************************************)
EXTENDS Integers, Sequences, FiniteSets, TLC

VARIABLES
    call,      \* the kernel / helper call under test: a record of its arguments
    ret,       \* what that call returned, a record (NoValue before it ran)
    pc,        \* the statement of the running program (0: not running)
    ri,        \* how many rotations the kernel at pc has issued so far
    loaded,    \* the rotation offsets whose keys are in the context's key table
    group,     \* the rotation-key file those keys were read from
    lastRot,   \* the offset of the latest EvalRotate / EvalFastRotation call
    failed,    \* the backend threw: a rotation found no key
    opLog,     \* the calls the driver has completed on the current image
    image,     \* the number of the image being evaluated, from 1
    skRead,    \* the process holds the secret key
    decrypted  \* how many ciphertexts the process has decrypted

drvVars == <<pc, ri, loaded, group, lastRot, failed, opLog, image, skRead,
             decrypted>>
vars == <<call, ret, pc, ri, loaded, group, lastRot, failed, opLog, image,
          skRead, decrypted>>

NoValue == [none |-> TRUE]

\* no program is running: the state of the kernel-level specifications
DriverIdle ==
    /\ pc = 0 /\ ri = 0 /\ loaded = {} /\ group = "" /\ lastRot = 0
    /\ failed = FALSE /\ opLog = <<>> /\ image = 0
    /\ skRead = FALSE /\ decrypted = 0

(***************************************************************************)
(* Bounds of the model.                                                    *)
(***************************************************************************)
MaxLogW == 3          \* feature-map widths are 2^1 .. 2^MaxLogW

(***************************************************************************)
(* Integer helpers for the <cmath> calls of the source.                    *)
(***************************************************************************)
RECURSIVE Pow2(_)
Pow2(e) == IF e <= 0 THEN 1 ELSE 2 * Pow2(e - 1)

\* the number of s = 1, 2, ... with s < log2(w), w >= 1 (the doubling loops)
RECURSIVE Log2Iters(_)
Log2Iters(w) == IF w <= 2 THEN 0 ELSE 1 + Log2Iters((w + 1) \div 2)

\* (int) pow(2, log2(w) - 1) for w = 1 .. 32 in IEEE double arithmetic: w/2
\* for the powers of two, 0 for w = 1 (pow(2, -1) = 0.5), and for the other
\* widths the truncation of a result that may fall just below w/2
Pow2Log2Minus1(w) ==
    << 0,  1,  1,  2,  2,  3,  3,  4,  4,  4,  5,  6,  6,  7,  7,  8,
       8,  8,  9, 10, 10, 11, 11, 12, 12, 12, 13, 13, 14, 15, 15, 16>>[w]

Max(a, b) == IF a >= b THEN a ELSE b

(***************************************************************************)
(* The CKKS backend, by its effect on the decrypted slots.                 *)
(***************************************************************************)
\* TLC keeps [i \in S |-> e] unevaluated; SubSeq turns it into a tuple once
Tup(f, n) == SubSeq(f, 1, n)

MakeCKKSPackedPlaintext(vec, n) ==
    Tup([i \in 1..n |-> IF i <= Len(vec) THEN vec[i] ELSE 0], n)

EvalRotate(ct, k) ==
    [slots |-> Tup([i \in 1..Len(ct.slots) |->
                        ct.slots[((i - 1 + k) % Len(ct.slots)) + 1]],
                   Len(ct.slots)),
     depth |-> ct.depth]

EvalMult(ct, pt) ==
    [slots |-> Tup([i \in 1..Len(ct.slots) |-> ct.slots[i] * pt[i]],
                   Len(ct.slots)),
     depth |-> ct.depth + 1]

EvalAdd(a, b) ==
    [slots |-> Tup([i \in 1..Len(a.slots) |-> a.slots[i] + b.slots[i]],
                   Len(a.slots)),
     depth |-> Max(a.depth, b.depth)]

(***************************************************************************)
(* Slot masks of the downsampler.                                          *)
(***************************************************************************)
\* a mask that keeps every column of the strided rows
first_mask_every_column(width, inputSize, stride) ==
    Tup([idx \in 1..inputSize |->
            IF ((idx - 1) \div width) % stride = 0 THEN 1 ELSE 0], inputSize)

first_mask(width, inputSize, stride) ==
    Tup([idx \in 1..inputSize |->
            LET i == (idx - 1) \div width
                j == (idx - 1) % width
            IN  IF i < width /\ j % stride = 0 /\ i % stride = 0
                THEN 1 ELSE 0], inputSize)

\* pattern ones, pattern zeros, pattern ones, ...
generate_binary_mask(pattern, inputSize) ==
    Tup([idx \in 1..inputSize |->
            IF ((idx - 1) % (2 * pattern)) < pattern THEN 1 ELSE 0], inputSize)

generate_row_mask(row, width, inputSize) ==
    Tup([idx \in 1..Max(inputSize, (row + 1) * width) |->
            IF idx > row * width /\ idx <= (row + 1) * width THEN 1 ELSE 0],
        Max(inputSize, (row + 1) * width))

generate_zero_mask(size) == Tup([idx \in 1..size |-> 0], size)

(***************************************************************************)
(* FHEONANNController::downsample                                          *)
(***************************************************************************)
\* Step 1, the loop  for (s = 1; s < log2(outputWidth); s++)
RECURSIVE DownsampleDoubling(_, _, _, _)
DownsampleDoubling(result, s, iters, inputSize) ==
    IF s > iters THEN result
    ELSE DownsampleDoubling(
            EvalMult(EvalAdd(result, EvalRotate(result, Pow2(s - 1))),
                     MakeCKKSPackedPlaintext(
                         generate_binary_mask(Pow2(s), inputSize),
                         Len(result.slots))),
            s + 1, iters, inputSize)

\* a row phase that adds the working ciphertext without masking it
DownsampleRows_unmasked(result, acc, row, outputWidth, inputWidth, stride) ==
    EvalAdd(acc, result)

\* Step 2, the loop over the output rows
RECURSIVE DownsampleRows(_, _, _, _, _, _)
DownsampleRows(result, acc, row, outputWidth, inputWidth, stride) ==
    IF row >= outputWidth THEN acc
    ELSE LET masked == EvalMult(result,
                          MakeCKKSPackedPlaintext(
                              generate_row_mask(row, outputWidth,
                                                inputWidth * inputWidth),
                              Len(result.slots)))
             acc2 == EvalAdd(acc, masked)
             res2 == IF row < outputWidth - 1
                     THEN EvalRotate(result,
                                     stride * inputWidth - outputWidth)
                     ELSE result
         IN  DownsampleRows(res2, acc2, row + 1, outputWidth, inputWidth,
                            stride)

downsample(input, inputWidth, stride) ==
    LET n           == Len(input.slots)
        outputWidth == inputWidth \div stride
        inputSize   == inputWidth * inputWidth
        r0 == EvalMult(input, MakeCKKSPackedPlaintext(
                                  first_mask(inputWidth, inputSize, stride), n))
        r1 == DownsampleDoubling(r0, 1, Log2Iters(outputWidth), inputSize)
        r2 == EvalAdd(r1, EvalRotate(r1, Pow2Log2Minus1(outputWidth)))
        zeros == EvalMult(input, MakeCKKSPackedPlaintext(
                                     generate_zero_mask(inputSize), n))
    IN  DownsampleRows(r2, zeros, 0, outputWidth, inputWidth, stride)

(***************************************************************************)
(* Inputs of the downsampler check.  The kernel is linear in the slots, so *)
(* the unit vectors (one non-zero slot, anywhere in the ciphertext) and    *)
(* the ramp 0, 1, 2, ... of the documented scenario are drawn.             *)
(***************************************************************************)
Widths == {Pow2(e) : e \in 1..MaxLogW}
Strides(w) == {s \in 1..w : \E e \in 0..MaxLogW : s = Pow2(e)}

UnitCt(n, k) == [slots |-> Tup([i \in 1..n |-> IF i = k + 1 THEN 1 ELSE 0], n),
                 depth |-> 0]
RampCt(n)    == [slots |-> Tup([i \in 1..n |-> i - 1], n), depth |-> 0]
InputCts(n)  == {UnitCt(n, k) : k \in 0..(n - 1)} \cup {RampCt(n)}

DownCalls ==
    {[fn |-> "downsample", input |-> ct, inputWidth |-> w, stride |-> s] :
        <<w, s, ct>> \in
          {t \in UNION {{<<w, s, ct>> : ct \in InputCts(w * w) \cup
                                               InputCts(2 * w * w)} :
                         <<w, s>> \in {p \in Widths \X (1..Pow2(MaxLogW)) :
                                         p[2] \in Strides(p[1])}} : TRUE}}

InitDown == call \in DownCalls /\ ret = NoValue /\ DriverIdle

RunDownsample ==
    /\ call.fn = "downsample"
    /\ ret = NoValue
    /\ ret' = downsample(call.input, call.inputWidth, call.stride)
    /\ UNCHANGED <<call, drvVars>>

NextDown == RunDownsample
SpecDown == InitDown /\ [][NextDown]_vars

(***************************************************************************)
(* The classical strided subsample, slot by slot.                          *)
(***************************************************************************)
Subsampled(out, inp, w, s) ==
    \A r \in 0..((w \div s) - 1) : \A j \in 0..((w \div s) - 1) :
        out.slots[r * (w \div s) + j + 1] = inp.slots[(s * r) * w + s * j + 1]

\* C1: for every power-of-two W and every stride s dividing W (s = 1, 2, 4,
\* ..., W), downsample(input, W, s) returns a ciphertext whose slot
\* r*(W/s) + j equals input slot (s*r)*W + s*j for all r, j in [0, W/s).
C1_DownsampleEveryStride ==
    (call.fn = "downsample" /\ ret # NoValue)
        => Subsampled(ret, call.input, call.inputWidth, call.stride)

(***************************************************************************)
(* Rotation-key lists.  <algorithm> on vector<int>, as libstdc++ and       *)
(* libc++ run it: std::remove compacts the kept elements to the front and  *)
(* leaves the tail positions holding their old values; std::unique keeps   *)
(* the first element of every run of equal neighbours.                     *)
(***************************************************************************)
\* <<f[a], f[a+1], ..., f[b]>>, the values a for-loop pushes
SeqOf(a, b, f) ==
    IF b < a THEN <<>> ELSE Tup([i \in 1..(b - a + 1) |-> f[a + i - 1]],
                                b - a + 1)

\* the concatenation of a sequence of sequences (by halves)
RECURSIVE Concat(_)
Concat(ss) ==
    IF ss = <<>> THEN <<>>
    ELSE IF Len(ss) = 1 THEN ss[1]
    ELSE Concat(SubSeq(ss, 1, Len(ss) \div 2))
         \o Concat(SubSeq(ss, (Len(ss) \div 2) + 1, Len(ss)))

\* std::sort: position i holds the value v with fewer than i elements below
\* it and at least i elements not above it
StdSort(s) ==
    Tup([i \in 1..Len(s) |->
            CHOOSE v \in {s[j] : j \in 1..Len(s)} :
                /\ Cardinality({j \in 1..Len(s) : s[j] < v}) < i
                /\ i <= Cardinality({j \in 1..Len(s) : s[j] <= v})],
        Len(s))

\* the vector after std::remove(begin, end, val), whose return value the
\* callers overwrite
StdRemove(v, val) ==
    LET kept == SelectSeq(v, LAMBDA x : x # val)
    IN  kept \o SubSeq(v, Len(kept) + 1, Len(v))

\* the range [begin, new_end) after new_end = std::unique(begin, end): the
\* elements that differ from their left neighbour, in order
StdUnique(v) ==
    LET keep == {i \in 1..Len(v) : i = 1 \/ v[i] # v[i - 1]}
    IN  Tup([k \in 1..Cardinality(keep) |->
                v[CHOOSE i \in keep : Cardinality({j \in keep : j <= i}) = k]],
            Cardinality(keep))

\* sort; remove (result dropped); unique; erase(new_end, end); sort
SortRemoveUnique(keys_position) ==
    StdSort(StdUnique(StdRemove(StdSort(keys_position), 0)))

serialize_rotation_keys(rotation_keys) ==
    SortRemoveUnique(Concat(rotation_keys))

Range(s) == {s[i] : i \in 1..Len(s)}

(***************************************************************************)
(* Inputs of the serialize_rotation_keys check: up to MaxLists offset      *)
(* lists of up to MaxListLen offsets each, with zeros, duplicates and      *)
(* negatives in any order.                                                 *)
(***************************************************************************)
MaxLists   == 2
MaxListLen == 3
MaxOffset  == 2

Offsets == (0 - 1)..MaxOffset
OffsetLists == UNION {[1..n -> Offsets] : n \in 0..MaxListLen}
SerCalls ==
    {[fn |-> "serialize_rotation_keys", rotation_keys |-> ks] :
        ks \in UNION {[1..m -> OffsetLists] : m \in 1..MaxLists}}

InitSer == call \in SerCalls /\ ret = NoValue /\ DriverIdle

RunSerialize ==
    /\ call.fn = "serialize_rotation_keys"
    /\ ret = NoValue
    /\ ret' = [keys |-> serialize_rotation_keys(call.rotation_keys)]
    /\ UNCHANGED <<call, drvVars>>

NextSer == RunSerialize
SpecSer == InitSer /\ [][NextSer]_vars

StrictlyIncreasing(s) == \A i \in 1..(Len(s) - 1) : s[i] < s[i + 1]

\* C5: for every list of offset lists given to serialize_rotation_keys (any
\* number of zeros, duplicates, negatives, in any order) the returned group
\* is strictly increasing, contains no 0, and its set of values is exactly
\* the set of nonzero values occurring in the inputs.
C5_GroupNormalForm ==
    (call.fn = "serialize_rotation_keys" /\ ret # NoValue)
        => /\ StrictlyIncreasing(ret.keys)
           /\ 0 \notin Range(ret.keys)
           /\ Range(ret.keys) = Range(Concat(call.rotation_keys)) \ {0}

(***************************************************************************)
(* The rotation-key planners of FHEONANNController.  Each returns the      *)
(* vector<int> it built.                                                   *)
(***************************************************************************)
\* the pushes of  for (pos = 0; pos < limit; pos += step) push_back(-pos)
RECURSIVE NegSteps(_, _, _)
NegSteps(pos, limit, step) ==
    IF pos >= limit THEN <<>>
    ELSE <<0 - pos>> \o NegSteps(pos + step, limit, step)

generate_convolution_rotation_positions(inputWidth, inputChannels, outputChannels, kernelWidth, padding, stride) ==
    LET inputWidth_sq    == inputWidth * inputWidth
        padded_width     == inputWidth + (2 * padding)
        padding_width_sq == padded_width * padded_width
        width_out    == ((padded_width - (kernelWidth - 1) - 1) \div stride) + 1
        width_out_sq == width_out * width_out
    IN  SortRemoveUnique(
            <<inputWidth, padded_width, padding_width_sq, inputWidth_sq,
              width_out, width_out_sq, 0 - 1, 1>>
            \o SeqOf(1, kernelWidth - 1, [i \in 1..(kernelWidth - 1) |-> i])
            \o SeqOf(1, width_out - 1, [i \in 1..(width_out - 1) |-> 0 - (i * width_out)])
            \o SeqOf(1, outputChannels - 1, [i \in 1..(outputChannels - 1) |-> 0 - (i * width_out_sq)]))

\* the pushes shared by the "single_channel" and "multi_channels" branches:
\* the doubling rotations of the downsampler and its row rotation
StridingKeys_without_row_shift(inputWidth, width_out, stride) ==
    SeqOf(1, Log2Iters(width_out), [s \in 1..(Log2Iters(width_out)) |-> Pow2(s - 1)])
    \o <<Pow2Log2Minus1(width_out)>>

StridingKeys(inputWidth, width_out, stride) ==
    SeqOf(1, Log2Iters(width_out), [s \in 1..(Log2Iters(width_out)) |-> Pow2(s - 1)])
    \o <<Pow2Log2Minus1(width_out), stride * inputWidth - width_out>>

\* the pushes of the "basic" branch
BasicStridingKeys(channels, width_out) ==
    Concat(SeqOf(1, channels - 1, [i \in 1..(channels - 1) |-> <<0 - (i * width_out),
                              0 - (i * width_out * width_out)>>]))
    \o Concat(SeqOf(1, width_out - 1, [i \in 1..(width_out - 1) |-> <<i, 0 - (i * width_out)>>]))

generate_optimized_convolution_rotation_positions(inputWidth, inputChannels, outputChannels, stride, stridingType) ==
    LET inputWidth_sq == inputWidth * inputWidth
        width_out     == inputWidth \div stride
        width_out_sq  == width_out * width_out
        diff          == inputWidth_sq - width_out_sq
        strided ==
          IF stridingType = "basic"
          THEN BasicStridingKeys(inputChannels, width_out)
          ELSE IF stridingType = "single_channel"
          THEN StridingKeys(inputWidth, width_out, stride)
               \o <<0 - (diff * ((outputChannels \div stride) - 1)), 0 - diff>>
               \o SeqOf(1, outputChannels - 1, [i \in 1..(outputChannels - 1) |-> 0 - (i * width_out_sq)])
          ELSE IF stridingType = "multi_channels"
          THEN SeqOf(1, inputChannels - 1, [i \in 1..(inputChannels - 1) |-> 0 - (i * inputWidth_sq)])
               \o StridingKeys(inputWidth, width_out, stride)
               \o <<0 - (diff * ((outputChannels \div stride) - 1)), 0 - diff,
                    diff, 0 - (inputChannels * width_out_sq)>>
          ELSE <<>>
    IN  SortRemoveUnique(
            <<0 - 1, 1, inputWidth_sq, inputWidth, 0 - inputWidth>>
            \o (IF stride > 1 THEN strided
                ELSE SeqOf(1, outputChannels - 1, [i \in 1..(outputChannels - 1) |-> 0 - (i * width_out_sq)])))

generate_avgpool_optimized_rotation_positions(inputWidth, inputChannels, kernelWidth, stride, globalPooling, stridingType, rotationIndex) ==
    LET width_avgpool_out == inputWidth \div stride
        width_avgpool_sq  == width_avgpool_out * width_avgpool_out
        width_sq          == inputWidth * inputWidth
        diff              == width_sq - width_avgpool_sq
        head == <<width_sq, inputWidth, stride, width_avgpool_out,
                  width_avgpool_sq, stride * inputWidth>>
        strided ==
          IF stridingType = "basic"
          THEN BasicStridingKeys(inputChannels, width_avgpool_out)
          ELSE IF stridingType = "single_channel"
          THEN StridingKeys(inputWidth, width_avgpool_out, stride)
               \o <<0 - (diff * ((inputChannels \div stride) - 1)), diff>>
               \o SeqOf(1, inputChannels - 1, [i \in 1..(inputChannels - 1) |-> 0 - (i * width_avgpool_sq)])
          ELSE IF stridingType = "multi_channels"
          THEN SeqOf(1, inputChannels - 1, [i \in 1..(inputChannels - 1) |-> 0 - (i * width_sq)])
               \o StridingKeys(inputWidth, width_avgpool_out, stride)
               \o <<0 - (diff * ((inputChannels \div stride) - 1)), 0 - diff,
                    diff, 0 - (inputChannels * width_avgpool_sq)>>
          ELSE <<>>
    IN  IF globalPooling
        THEN <<inputWidth * inputWidth, 0 - inputChannels>>
             \o NegSteps(0, inputChannels, rotationIndex)
             \o SeqOf(1, rotationIndex, [i \in 1..(rotationIndex) |-> i])
        ELSE IF inputWidth <= 2
        THEN head \o SeqOf(0, inputChannels - 1, [pos \in 0..(inputChannels - 1) |-> pos])
        ELSE SortRemoveUnique(head \o (IF stride > 1 THEN strided ELSE <<>>))

\* a planner that pushes counter where the kernel rotates by -counter
generate_linear_rotation_positions_unsigned(maxFCLayeroutputs, rotationPositions) ==
    SortRemoveUnique(SeqOf(0, maxFCLayeroutputs - 1,
                           [c \in 0..(maxFCLayeroutputs - 1) |->
                               (c \div rotationPositions) * rotationPositions])
                     \o SeqOf(1, rotationPositions,
                              [i \in 1..rotationPositions |-> i]))

generate_linear_rotation_positions(maxFCLayeroutputs, rotationPositions) ==
    SortRemoveUnique(NegSteps(0, maxFCLayeroutputs, rotationPositions)
                     \o SeqOf(1, rotationPositions, [i \in 1..(rotationPositions) |-> i]))

(***************************************************************************)
(* The offsets each kernel passes to EvalRotate / EvalFastRotation, in     *)
(* call order.  EvalSum and EvalMerge rotate inside the backend with their *)
(* own keys and are not listed.                                            *)
(***************************************************************************)
downsample_rots(inputWidth, stride) ==
    LET outputWidth == inputWidth \div stride
    IN  SeqOf(1, Log2Iters(outputWidth), [s \in 1..(Log2Iters(outputWidth)) |-> Pow2(s - 1)])
        \o <<Pow2Log2Minus1(outputWidth)>>
        \o SeqOf(0, outputWidth - 2, [row \in 0..(outputWidth - 2) |-> stride * inputWidth - outputWidth])

he_convolution_rots(inputWidth, inputChannels, outputChannels, kernelWidth, paddingLen, stride) ==
    LET inputSize   == inputWidth * inputWidth
        outputWidth == ((inputWidth - kernelWidth) \div stride) + 1
        outputSize  == outputWidth * outputWidth
        slices ==
          Concat(SeqOf(0, kernelWidth - 1, [i \in 0..(kernelWidth - 1) |-> (IF i > 0 THEN <<inputWidth>> ELSE <<>>)
                                  \o SeqOf(1, kernelWidth - 1, [j \in 1..(kernelWidth - 1) |-> j])]))
        striding ==
          IF stride > 1 THEN downsample_rots(inputWidth, stride)
          ELSE Concat(SeqOf(1, outputWidth - 1, [l \in 1..(outputWidth - 1) |-> <<inputWidth, 0 - (outputWidth * l)>>]))
        channel(out_ch) ==
          SeqOf(1, inputChannels - 1, [ch \in 1..(inputChannels - 1) |-> inputSize])
          \o striding
          \o (IF out_ch = 0 THEN <<>> ELSE <<0 - (out_ch * outputSize)>>)
    IN  slices \o Concat(SeqOf(0, outputChannels - 1, [c \in 0..(outputChannels - 1) |-> channel(c)]))

\* the eight rotations that build the nine slices of a 3x3 kernel
NineSlices(inputWidth) ==
    <<0 - 1, 1, 0 - inputWidth, 0 - inputWidth, 0 - inputWidth,
      inputWidth, inputWidth, inputWidth>>

he_convolution_optimized_rots(inputWidth, inputChannels, outputChannels, stride) ==
    LET inputSize  == inputWidth * inputWidth
        widthOut   == inputWidth \div stride
        outputSize == widthOut * widthOut
        channel(outCh) ==
          SeqOf(1, inputChannels - 1, [k \in 1..(inputChannels - 1) |-> inputSize])
          \o (IF stride # 1 THEN downsample_rots(inputWidth, stride) ELSE <<>>)
          \o (IF outCh = 0 THEN <<>> ELSE <<0 - (outCh * outputSize)>>)
    IN  NineSlices(inputWidth) \o Concat(SeqOf(0, outputChannels - 1, [c \in 0..(outputChannels - 1) |-> channel(c)]))

he_convolution_and_shortcut_optimized_rots(inputWidth, inputChannels, outputChannels) ==
    LET stride      == 2
        outputWidth == inputWidth \div stride
        inputSize   == inputWidth * inputWidth
        outputSize  == outputWidth * outputWidth
        channel(outCh) ==
          Concat(SeqOf(1, inputChannels - 1, [inCh \in 1..(inputChannels - 1) |-> <<inputSize, inputSize>>]))
          \o downsample_rots(inputWidth, stride)
          \o downsample_rots(inputWidth, stride)
          \o (IF outCh = 0 THEN <<>>
              ELSE <<0 - (outCh * outputSize), 0 - (outCh * outputSize)>>)
    IN  NineSlices(inputWidth) \o Concat(SeqOf(0, outputChannels - 1, [c \in 0..(outputChannels - 1) |-> channel(c)]))

he_avgpool_optimzed_rots(inputWidth, inputChannels, kernelWidth, stride) ==
    LET inputSize   == inputWidth * inputWidth
        outputWidth == inputWidth \div stride
        outputSize  == outputWidth * outputWidth
    IN  <<1, inputWidth, inputWidth, 1>>
        \o (IF inputWidth <= 2
            THEN SeqOf(1, inputChannels - 1, [i \in 1..(inputChannels - 1) |-> inputSize])
            ELSE downsample_rots(inputWidth, stride)
                 \o Concat(SeqOf(1, inputChannels - 1, [i \in 1..(inputChannels - 1) |-> <<inputSize>>
                                            \o downsample_rots(inputWidth, stride)
                                            \o <<0 - (i * outputSize)>>])))

\* the merge-and-rotate loop of he_linear and he_globalavgpool, one merge
\* group per step: the entries i .. last fill the group (j reaches
\* rotatePositions, or last is the final entry), each entry but entry 0 first
\* rotating by before (a sequence); the merged group is then rotated by
\* -rotation_index when that is positive
RECURSIVE MergeLoopRots(_, _, _, _, _)
MergeLoopRots(i, rotation_index, count, rotatePositions, before) ==
    IF i >= count THEN <<>>
    ELSE LET last == IF i + rotatePositions - 1 < count - 1
                     THEN i + rotatePositions - 1 ELSE count - 1
         IN  Concat(SeqOf(i, last, [e \in i..last |->
                                       IF e # 0 THEN before ELSE <<>>]))
             \o (IF rotation_index > 0 THEN <<0 - rotation_index>> ELSE <<>>)
             \o MergeLoopRots(last + 1, rotation_index + rotatePositions,
                              count, rotatePositions, before)

he_globalavgpool_rots(inputWidth, outputChannels, kernelWidth, rotatePositions) ==
    MergeLoopRots(0, 0, outputChannels, rotatePositions,
                  <<inputWidth * inputWidth>>)

\* weightRows is weightMatrix.size()
he_linear_rots(weightRows, inputSize, outputSize, rotatePositions) ==
    IF outputSize > weightRows THEN <<>>
    ELSE MergeLoopRots(0, 0, outputSize, rotatePositions, <<>>)

he_linear_optimized_rots(weightRows, inputSize, outputSize) == <<>>

(***************************************************************************)
(* Planner against kernel: a layer shape is drawn, the planner and the     *)
(* kernel are both run on it, and the keys planned are set beside the      *)
(* offsets rotated by.                                                     *)
(***************************************************************************)
MaxChannels == 3
MaxKernel   == 3
MaxPadding  == 1
MaxStride   == 2
MaxFC       == 6
MaxRotPos   == 3

StridingTypes == {"basic", "single_channel", "multi_channels"}

PlanCalls ==
    {[fn |-> "he_convolution", inputWidth |-> w, inputChannels |-> ci,
      outputChannels |-> co, kernelWidth |-> k, padding |-> p, stride |-> s] :
        <<w, ci, co, k, p, s>> \in
            {x \in Widths \X (1..MaxChannels) \X (1..MaxChannels)
                   \X (1..MaxKernel) \X (0..MaxPadding) \X (1..MaxStride) :
                x[4] <= x[1] /\ x[6] <= x[1]}}
    \cup
    {[fn |-> "he_convolution_optimized", inputWidth |-> w,
      inputChannels |-> ci, outputChannels |-> co, stride |-> s,
      stridingType |-> st] :
        <<w, ci, co, s, st>> \in
            {x \in Widths \X (1..MaxChannels) \X (1..MaxChannels)
                   \X (1..MaxStride) \X StridingTypes : x[4] <= x[1]}}
    \cup
    {[fn |-> "he_avgpool_optimzed", inputWidth |-> w, inputChannels |-> ci,
      kernelWidth |-> s, stride |-> s, stridingType |-> st] :
        <<w, ci, s, st>> \in
            {x \in Widths \X (1..MaxChannels) \X (1..MaxStride)
                   \X StridingTypes : x[3] <= x[1]}}
    \cup
    {[fn |-> "he_linear", maxFCLayeroutputs |-> m, outputSize |-> o,
      rotatePositions |-> r] :
        <<m, o, r>> \in {x \in (1..MaxFC) \X (1..MaxFC) \X (1..MaxRotPos) :
                           x[2] <= x[1]}}

InitPlan == call \in PlanCalls /\ ret = NoValue /\ DriverIdle

PlanConvolution ==
    /\ call.fn = "he_convolution"
    /\ ret = NoValue
    /\ ret' = [keys |-> generate_convolution_rotation_positions(
                            call.inputWidth, call.inputChannels,
                            call.outputChannels, call.kernelWidth,
                            call.padding, call.stride),
               rotated |-> he_convolution_rots(
                            call.inputWidth, call.inputChannels,
                            call.outputChannels, call.kernelWidth,
                            call.padding, call.stride)]
    /\ UNCHANGED <<call, drvVars>>

PlanConvolutionOptimized ==
    /\ call.fn = "he_convolution_optimized"
    /\ ret = NoValue
    /\ ret' = [keys |-> generate_optimized_convolution_rotation_positions(
                            call.inputWidth, call.inputChannels,
                            call.outputChannels, call.stride,
                            call.stridingType),
               rotated |-> he_convolution_optimized_rots(
                            call.inputWidth, call.inputChannels,
                            call.outputChannels, call.stride)]
    /\ UNCHANGED <<call, drvVars>>

PlanAvgpoolOptimized ==
    /\ call.fn = "he_avgpool_optimzed"
    /\ ret = NoValue
    /\ ret' = [keys |-> generate_avgpool_optimized_rotation_positions(
                            call.inputWidth, call.inputChannels,
                            call.kernelWidth, call.stride, FALSE,
                            call.stridingType, 16),
               rotated |-> he_avgpool_optimzed_rots(
                            call.inputWidth, call.inputChannels,
                            call.kernelWidth, call.stride)]
    /\ UNCHANGED <<call, drvVars>>

PlanLinear ==
    /\ call.fn = "he_linear"
    /\ ret = NoValue
    /\ ret' = [keys |-> generate_linear_rotation_positions(
                            call.maxFCLayeroutputs, call.rotatePositions),
               rotated |-> he_linear_rots(call.maxFCLayeroutputs,
                                          call.maxFCLayeroutputs,
                                          call.outputSize,
                                          call.rotatePositions)]
    /\ UNCHANGED <<call, drvVars>>

NextPlan == \/ PlanConvolution
            \/ PlanConvolutionOptimized
            \/ PlanAvgpoolOptimized
            \/ PlanLinear
SpecPlan == InitPlan /\ [][NextPlan]_vars

PlanFns == {"he_convolution", "he_convolution_optimized",
            "he_avgpool_optimzed", "he_linear"}

\* C4: for every layer shape and each of the four planner/kernel pairs, the
\* set of offsets the planner emits equals the set of nonzero offsets the
\* kernel explicitly rotates by: none missing and none extra.
C4_PlannerExact ==
    (call.fn \in PlanFns /\ ret # NoValue)
        => Range(ret.keys) = Range(ret.rotated) \ {0}

(***************************************************************************)
(* Drivers.  A driver is straight-line code: it is modelled by the list of *)
(* the calls it makes, in order, each with the offsets the called kernel   *)
(* rotates by.  pc indexes the list, ri the rotations of the call at pc.   *)
(***************************************************************************)
MaxBatch == 2         \* images evaluated one after another

\* one call of a driver: op the function called, layer the layer name or
\* key file it is given, block the residual block making the call,
\* inputWidth the feature-map width passed, rots the offsets it rotates by
Step(op, layer, block, inputWidth, rots) ==
    [op |-> op, layer |-> layer, block |-> block, inputWidth |-> inputWidth,
     rots |-> rots, flags |-> <<>>]

\* the key file written for one group: the group's offsets under its name
harness_generate_bootstrapping_and_rotation_keys(rotations, file) ==
    file :> rotations

\* the offsets in the key table after the named file was read: the table is
\* cleared and holds the keys of that file only
harness_read_evaluation_keys(files, rk_file) == Range(files[rk_file])

(***************************************************************************)
(* LeNet-5: the key generator and the driver.                              *)
(***************************************************************************)
lenet5_generate_rotation_keys ==
    LET kernelWidth  == 5
        poolSize     == 2
        Stride       == 1
        paddingLen   == 0
        rotPositions == 16
        inputWidth(i) == <<28, 24, 12, 8, 4>>[i + 1]
        channels(i)   == <<1, 6, 16, 256, 120, 84, 10>>[i + 1]
        conv1_keys == generate_convolution_rotation_positions(
                          inputWidth(0), channels(0), channels(1),
                          kernelWidth, paddingLen, Stride)
        avg1_keys  == generate_avgpool_optimized_rotation_positions(
                          inputWidth(1), channels(1), poolSize, poolSize,
                          FALSE, "single_channel", 16)
        conv2_keys == generate_convolution_rotation_positions(
                          inputWidth(2), channels(1), channels(2),
                          kernelWidth, paddingLen, Stride)
        avg2_keys  == generate_avgpool_optimized_rotation_positions(
                          inputWidth(3), channels(2), poolSize, poolSize,
                          FALSE, "single_channel", 16)
        fc_keys    == generate_linear_rotation_positions(channels(4),
                                                         rotPositions)
    IN  harness_generate_bootstrapping_and_rotation_keys(
            serialize_rotation_keys(<<conv1_keys, avg1_keys>>),
            "layer1_rk.bin")
        @@ harness_generate_bootstrapping_and_rotation_keys(
            serialize_rotation_keys(<<conv2_keys, avg2_keys>>),
            "layer2_rk.bin")
        @@ harness_generate_bootstrapping_and_rotation_keys(
            serialize_rotation_keys(<<fc_keys>>), "layer3_rk.bin")

\* the constants of lenet5(): imgWidth[i] and channels[i]
lenet5_imgWidth(i) == <<28, 24, 12, 8, 4>>[i + 1]
lenet5_channels(i) == <<1, 6, 16, 256, 120, 84, 10>>[i + 1]

\* Conv1, ReLU, AvgPool on the keys read at the start of lenet5()
lenet5_group1 ==
    LET kernelWidth == 5
        poolSize    == 2
    IN  <<Step("harness_read_evaluation_keys", "layer1_rk.bin", "", 0, <<>>),
          Step("he_convolution", "Conv1", "", lenet5_imgWidth(0),
               he_convolution_rots(lenet5_imgWidth(0), lenet5_channels(0),
                                   lenet5_channels(1), kernelWidth, 0, 1)),
          Step("he_relu", "Conv1", "", lenet5_imgWidth(1), <<>>),
          Step("he_avgpool_optimzed", "AvgPool1", "", lenet5_imgWidth(1),
               he_avgpool_optimzed_rots(lenet5_imgWidth(1),
                                        lenet5_channels(1), poolSize,
                                        poolSize))>>

\* Conv2, ReLU, bootstrap, AvgPool on layer2_rk.bin
lenet5_group2 ==
    LET kernelWidth == 5
        poolSize    == 2
    IN  <<Step("harness_read_evaluation_keys", "layer2_rk.bin", "", 0, <<>>),
          Step("he_convolution", "Conv2", "", lenet5_imgWidth(2),
               he_convolution_rots(lenet5_imgWidth(2), lenet5_channels(1),
                                   lenet5_channels(2), kernelWidth, 0, 1)),
          Step("he_relu", "Conv2", "", lenet5_imgWidth(3), <<>>),
          Step("bootstrap_function", "Conv2", "", lenet5_imgWidth(3), <<>>),
          Step("he_avgpool_optimzed", "AvgPool2", "", lenet5_imgWidth(3),
               he_avgpool_optimzed_rots(lenet5_imgWidth(3),
                                        lenet5_channels(2), poolSize,
                                        poolSize))>>

\* a driver that reads the third key file one layer late
lenet5_group3_late_switch ==
    LET rotPositions == 16
    IN  <<Step("he_linear", "FC1", "", 0,
               he_linear_rots(lenet5_channels(4), lenet5_channels(3),
                              lenet5_channels(4), rotPositions)),
          Step("harness_read_evaluation_keys", "layer3_rk.bin", "", 0, <<>>),
          Step("bootstrap_function", "FC1", "", 0, <<>>),
          Step("he_relu", "FC1", "", 0, <<>>),
          Step("he_linear", "FC2", "", 0,
               he_linear_rots(lenet5_channels(5), lenet5_channels(4),
                              lenet5_channels(5), rotPositions)),
          Step("bootstrap_function", "FC2", "", 0, <<>>),
          Step("he_relu", "FC2", "", 0, <<>>),
          Step("he_linear", "FC3", "", 0,
               he_linear_rots(lenet5_channels(6), lenet5_channels(5),
                              lenet5_channels(6), rotPositions))>>

\* FC1, bootstrap, ReLU, FC2, bootstrap, ReLU, FC3 on layer3_rk.bin; the
\* weight matrix of each he_linear has as many rows as the layer has outputs
lenet5_group3 ==
    LET rotPositions == 16
    IN  <<Step("harness_read_evaluation_keys", "layer3_rk.bin", "", 0, <<>>),
          Step("he_linear", "FC1", "", 0,
               he_linear_rots(lenet5_channels(4), lenet5_channels(3),
                              lenet5_channels(4), rotPositions)),
          Step("bootstrap_function", "FC1", "", 0, <<>>),
          Step("he_relu", "FC1", "", 0, <<>>),
          Step("he_linear", "FC2", "", 0,
               he_linear_rots(lenet5_channels(5), lenet5_channels(4),
                              lenet5_channels(5), rotPositions)),
          Step("bootstrap_function", "FC2", "", 0, <<>>),
          Step("he_relu", "FC2", "", 0, <<>>),
          Step("he_linear", "FC3", "", 0,
               he_linear_rots(lenet5_channels(6), lenet5_channels(5),
                              lenet5_channels(6), rotPositions))>>

lenet5 == lenet5_group1 \o lenet5_group2 \o lenet5_group3

(***************************************************************************)
(* Running a driver.                                                       *)
(***************************************************************************)
Running(prog) == pc \in 1..Len(prog) /\ ~failed

Entry(step) == [op |-> step.op, layer |-> step.layer, block |-> step.block,
                inputWidth |-> step.inputWidth, flags |-> step.flags]

\* harness_read_evaluation_keys(context, pubkey_dir, mk_file, rk_file)
ReadEvaluationKeys(prog, files) ==
    /\ Running(prog)
    /\ prog[pc].op = "harness_read_evaluation_keys"
    /\ loaded' = harness_read_evaluation_keys(files, prog[pc].layer)
    /\ group' = prog[pc].layer
    /\ opLog' = Append(opLog, Entry(prog[pc]))
    /\ pc' = pc + 1
    /\ UNCHANGED <<call, ret, ri, lastRot, failed, image, skRead, decrypted>>

\* one EvalRotate / EvalFastRotation of the kernel at pc; the backend throws
\* when the key of a nonzero offset is not in the table
Rotate(prog) ==
    /\ Running(prog)
    /\ ri < Len(prog[pc].rots)
    /\ lastRot' = prog[pc].rots[ri + 1]
    /\ ri' = ri + 1
    /\ failed' = (lastRot' # 0 /\ lastRot' \notin loaded)
    /\ UNCHANGED <<call, ret, pc, loaded, group, opLog, image, skRead,
                   decrypted>>

\* the call at pc has issued all its rotations and returns to the driver
CallReturn(prog) ==
    /\ Running(prog)
    /\ prog[pc].op # "harness_read_evaluation_keys"
    /\ ri = Len(prog[pc].rots)
    /\ opLog' = Append(opLog, Entry(prog[pc]))
    /\ pc' = pc + 1
    /\ ri' = 0
    /\ UNCHANGED <<call, ret, loaded, group, lastRot, failed, image, skRead,
                   decrypted>>

\* lenet5() has returned its result and is called on the next image
LenetNextImage ==
    /\ pc = Len(lenet5) + 1
    /\ ~failed
    /\ image < MaxBatch
    /\ image' = image + 1
    /\ pc' = 1
    /\ opLog' = <<>>
    /\ UNCHANGED <<call, ret, ri, loaded, group, lastRot, failed, skRead,
                   decrypted>>

InitLenet ==
    /\ call = NoValue /\ ret = NoValue
    /\ pc = 1 /\ ri = 0 /\ loaded = {} /\ group = "" /\ lastRot = 0
    /\ failed = FALSE /\ opLog = <<>> /\ image = 1
    /\ skRead = FALSE /\ decrypted = 0

LenetReadEvaluationKeys == ReadEvaluationKeys(lenet5, lenet5_generate_rotation_keys)
LenetRotate == Rotate(lenet5)
LenetCallReturn == CallReturn(lenet5)

NextLenet == \/ LenetReadEvaluationKeys
             \/ LenetRotate
             \/ LenetCallReturn
             \/ LenetNextImage
SpecLenet == InitLenet /\ [][NextLenet]_vars

\* C2: during a lenet5() run every nonzero offset a kernel passes to
\* EvalRotate / EvalFastRotation is in the rotation-key group loaded at that
\* moment (ri > 0: the kernel at pc has rotated, lastRot is its latest
\* offset, and no key file is read while a kernel runs), the loaded group
\* being the one the key generator wrote for that part of the network.
C2_LenetKeyCoverage ==
    ri > 0 => /\ lastRot # 0 => lastRot \in loaded
              /\ group \in DOMAIN lenet5_generate_rotation_keys
              /\ loaded = Range(lenet5_generate_rotation_keys[group])

\* the last block rotation of FC1 (-112) was made under the third group
C2_Witness ==
    /\ ~failed /\ ri > 0 /\ lenet5[pc].layer = "FC1"
    /\ lastRot = 0 - 112 /\ group = "layer3_rk.bin"

\* the name the schedule gives a completed call
LenetName(e) ==
    IF e.op = "he_relu" THEN "ReLU"
    ELSE IF e.op = "bootstrap_function" THEN "bootstrap"
    ELSE IF e.op = "he_avgpool_optimzed" THEN "AvgPool"
    ELSE IF e.op = "harness_read_evaluation_keys" THEN "switch"
    ELSE e.layer

\* the calls completed on the current image; a key-file read counts as a
\* switch of group when a kernel has already run on the image (the read at
\* the entry of lenet5() loads the first group)
LenetObserved ==
    LET idx == {i \in 1..Len(opLog) :
                   \/ opLog[i].op # "harness_read_evaluation_keys"
                   \/ \E j \in 1..(i - 1) :
                          opLog[j].op # "harness_read_evaluation_keys"}
    IN  Tup([k \in 1..Cardinality(idx) |->
                LenetName(opLog[CHOOSE i \in idx :
                                   Cardinality({j \in idx : j <= i}) = k])],
            Cardinality(idx))

LenetSchedule ==
    <<"Conv1", "ReLU", "AvgPool", "switch", "Conv2", "ReLU", "bootstrap",
      "AvgPool", "switch", "FC1", "bootstrap", "ReLU", "FC2", "bootstrap",
      "ReLU", "FC3">>

IsPrefix(s, u) == Len(s) <= Len(u) /\ s = SubSeq(u, 1, Len(s))

\* C6: on every image the driver performs exactly Conv1, ReLU, AvgPool,
\* Conv2, ReLU, bootstrap, AvgPool, FC1, bootstrap, ReLU, FC2, bootstrap,
\* ReLU, FC3 and switches the key group exactly twice, immediately before
\* Conv2 and immediately before FC1: what it has done so far is always a
\* prefix of that schedule, and all of it when lenet5() returns.
C6_LenetSchedule ==
    /\ IsPrefix(LenetObserved, LenetSchedule)
    /\ (pc = Len(lenet5) + 1 /\ ~failed) => LenetObserved = LenetSchedule

\* the second image has been evaluated to the end
C6_Witness ==
    /\ pc = Len(lenet5) + 1 /\ ~failed /\ image = 2
    /\ LenetObserved = LenetSchedule

(***************************************************************************)
(* ResNet-20: the key generator, the driver and the server program.        *)
(***************************************************************************)
resnet20_generate_rotation_keys ==
    LET img_depth    == 3
        avgpoolSize  == 8
        rotPositions == 16
        channels(i)  == <<16, 32, 64, 10>>[i + 1]
        dataWidth0   == 32
        conv1_keys == generate_optimized_convolution_rotation_positions(
                          dataWidth0, img_depth, channels(0), 1,
                          "multi_channels")
        conv2_keys == generate_optimized_convolution_rotation_positions(
                          dataWidth0, channels(0), channels(0), 1,
                          "multi_channels")
        conv3_keys == generate_optimized_convolution_rotation_positions(
                          dataWidth0, channels(0), channels(1), 2,
                          "multi_channels")
        dataWidth1 == dataWidth0 \div 2
        conv4_keys == generate_optimized_convolution_rotation_positions(
                          dataWidth1, channels(1), channels(1), 1,
                          "multi_channels")
        conv5_keys == generate_optimized_convolution_rotation_positions(
                          dataWidth1, channels(1), channels(2), 2,
                          "single_channel")
        dataWidth2 == dataWidth1 \div 2
        conv6_keys == generate_optimized_convolution_rotation_positions(
                          dataWidth2, channels(2), channels(2), 1,
                          "multi_channels")
        avgpool1_key == generate_avgpool_optimized_rotation_positions(
                          dataWidth2, channels(2), avgpoolSize, avgpoolSize,
                          TRUE, "single_channel", rotPositions)
        fc_keys == generate_linear_rotation_positions(channels(3),
                                                      rotPositions)
    IN  harness_generate_bootstrapping_and_rotation_keys(
            serialize_rotation_keys(<<conv1_keys, conv2_keys>>),
            "layer1_rk.bin")
        @@ harness_generate_bootstrapping_and_rotation_keys(
            serialize_rotation_keys(<<conv3_keys, conv4_keys>>),
            "layer2_rk.bin")
        @@ harness_generate_bootstrapping_and_rotation_keys(
            serialize_rotation_keys(<<conv5_keys, conv6_keys>>),
            "layer3_rk.bin")
        @@ harness_generate_bootstrapping_and_rotation_keys(
            serialize_rotation_keys(<<avgpool1_key, fc_keys, <<32, 64>>>>),
            "layer4_rk.bin")

\* convolution_block: one he_convolution_optimized on the named layer
convolution_block(layer, block, dataWidth, striding, inputChannels, outputChannels) ==
    <<Step("he_convolution_optimized", layer, block, dataWidth,
           he_convolution_optimized_rots(dataWidth, inputChannels,
                                         outputChannels, striding))>>

\* double_shortcut_convolution_block: the fused kernel on the block's input
double_shortcut_convolution_block(layer, dataWidth, inputChannels, outputChannels) ==
    <<Step("he_convolution_and_shortcut_optimized", layer, layer, dataWidth,
           he_convolution_and_shortcut_optimized_rots(dataWidth,
                                                      inputChannels,
                                                      outputChannels))>>

\* resnet_block: the calls it makes, in order, and dataWidth as it leaves it
\* (dataWidth is passed by reference).  The first entry is the call of
\* resnet_block itself with its two flags.
resnet_block(layer, dataWidth, inputChannels, outputChannels, bootstrapState, shortcutConv) ==
    LET striding == 1
        widthOut == IF shortcutConv THEN dataWidth \div 2 ELSE dataWidth
        enter == [Step("resnet_block", layer, layer, dataWidth, <<>>)
                     EXCEPT !.flags = <<bootstrapState, shortcutConv>>]
        first ==
            IF shortcutConv
            THEN <<Step("bootstrap_function", layer, layer, dataWidth, <<>>)>>
                 \o double_shortcut_convolution_block(layer, dataWidth,
                                                      inputChannels,
                                                      outputChannels)
            ELSE convolution_block(layer \o "_conv1", layer, dataWidth,
                                   striding, inputChannels, outputChannels)
        flagged ==
            IF bootstrapState
            THEN <<Step("bootstrap_function", layer, layer, widthOut, <<>>)>>
            ELSE <<>>
    IN  [steps |->
            <<enter>> \o first \o flagged
            \o <<Step("bootstrap_function", layer, layer, widthOut, <<>>),
                 Step("he_relu", layer, layer, widthOut, <<>>)>>
            \o convolution_block(layer \o "_conv2", layer, widthOut,
                                 striding, outputChannels, outputChannels)
            \o <<Step("he_sum_two_ciphertexts", layer, layer, widthOut, <<>>),
                 Step("bootstrap_function", layer, layer, widthOut, <<>>),
                 Step("he_relu", layer, layer, widthOut, <<>>)>>,
         dataWidth |-> widthOut]

resnet20_channelValues(i) == <<16, 32, 64, 10>>[i + 1]

\* resnet20(): layer 0 and the three blocks of layer 1 on layer1_rk.bin
resnet20_layer1(dataWidth) ==
    LET img_depth  == 3
        kernelSize == 3
        striding   == 1
        c0 == resnet20_channelValues(0)
        b1 == resnet_block("layer1_block1", dataWidth, c0, c0, FALSE, FALSE)
        b2 == resnet_block("layer1_block2", b1.dataWidth, c0, c0, TRUE, FALSE)
        b3 == resnet_block("layer1_block3", b2.dataWidth, c0, c0, TRUE, FALSE)
    IN  [steps |->
            <<Step("harness_read_evaluation_keys", "layer1_rk.bin", "", 0,
                   <<>>),
              Step("EvalBootstrapSetup", "", "", 0, <<>>)>>
            \o convolution_block("layer0_conv1", "", dataWidth, striding,
                                 img_depth, c0)
            \o <<Step("he_relu", "layer0_conv1", "", dataWidth, <<>>)>>
            \o b1.steps \o b2.steps \o b3.steps,
         dataWidth |-> b3.dataWidth]

\* the three blocks of layer 2 on layer2_rk.bin
resnet20_layer2(dataWidth) ==
    LET c0 == resnet20_channelValues(0)
        c1 == resnet20_channelValues(1)
        b1 == resnet_block("layer2_block1", dataWidth, c0, c1, TRUE, TRUE)
        b2 == resnet_block("layer2_block2", b1.dataWidth, c1, c1, TRUE, FALSE)
        b3 == resnet_block("layer2_block3", b2.dataWidth, c1, c1, TRUE, FALSE)
    IN  [steps |->
            <<Step("harness_read_evaluation_keys", "layer2_rk.bin", "", 0,
                   <<>>)>>
            \o b1.steps \o b2.steps \o b3.steps,
         dataWidth |-> b3.dataWidth]

\* a driver that reads the third key file one block late
resnet20_layer3_late_read(dataWidth) ==
    LET c1 == resnet20_channelValues(1)
        c2 == resnet20_channelValues(2)
        b1 == resnet_block("layer3_block1", dataWidth, c1, c2, TRUE, TRUE)
        b2 == resnet_block("layer3_block2", b1.dataWidth, c2, c2, TRUE, FALSE)
        b3 == resnet_block("layer3_block3", b2.dataWidth, c2, c2, TRUE, FALSE)
    IN  [steps |->
            b1.steps
            \o <<Step("harness_read_evaluation_keys", "layer3_rk.bin", "", 0,
                      <<>>)>>
            \o b2.steps \o b3.steps,
         dataWidth |-> b3.dataWidth]

\* the three blocks of layer 3 on layer3_rk.bin
resnet20_layer3(dataWidth) ==
    LET c1 == resnet20_channelValues(1)
        c2 == resnet20_channelValues(2)
        b1 == resnet_block("layer3_block1", dataWidth, c1, c2, TRUE, TRUE)
        b2 == resnet_block("layer3_block2", b1.dataWidth, c2, c2, TRUE, FALSE)
        b3 == resnet_block("layer3_block3", b2.dataWidth, c2, c2, TRUE, FALSE)
    IN  [steps |->
            <<Step("harness_read_evaluation_keys", "layer3_rk.bin", "", 0,
                   <<>>)>>
            \o b1.steps \o b2.steps \o b3.steps,
         dataWidth |-> b3.dataWidth]

\* bootstrap, global average pool and the classifier on layer4_rk.bin; the
\* classifier's weight matrix has one row per output (fc_layer_block)
resnet20_tail(dataWidth) ==
    LET avgpoolSize  == 8
        rotPositions == 16
        c2 == resnet20_channelValues(2)
        c3 == resnet20_channelValues(3)
    IN  <<Step("harness_read_evaluation_keys", "layer4_rk.bin", "", 0, <<>>),
          Step("bootstrap_function", "", "", dataWidth, <<>>),
          Step("he_globalavgpool", "", "", dataWidth,
               he_globalavgpool_rots(dataWidth, c2, avgpoolSize,
                                     rotPositions)),
          Step("he_linear_optimized", "layer_fc", "", 0,
               he_linear_optimized_rots(c3, c2, c3))>>

resnet20 ==
    LET img_cols == 32
        l1 == resnet20_layer1(img_cols)
        l2 == resnet20_layer2(l1.dataWidth)
        l3 == resnet20_layer3(l2.dataWidth)
    IN  l1.steps \o l2.steps \o l3.steps \o resnet20_tail(l3.dataWidth)

\* server main up to the loop over the batch: read_crypto_context,
\* read_eval_keys (throws when rk.bin cannot be read), read_public_key,
\* read_secret_key, EvalBootstrapSetup, EvalBootstrapKeyGen(sk, numSlots).
\* No program of the repository writes rk.bin, so whether it is there is an
\* input; the keys it holds are replaced by resnet20()'s first read.
ServerSetup ==
    /\ pc = 0 /\ ~failed /\ image = 0
    /\ \E rk_present \in BOOLEAN :
          IF rk_present
          THEN /\ skRead' = TRUE
               /\ image' = 1
               /\ pc' = 1
               /\ group' = "rk.bin"
               /\ failed' = FALSE
          ELSE /\ failed' = TRUE
               /\ UNCHANGED <<skRead, image, pc, group>>
    /\ UNCHANGED <<call, ret, ri, loaded, lastRot, opLog, decrypted>>

ResnetReadEvaluationKeys ==
    ReadEvaluationKeys(resnet20, resnet20_generate_rotation_keys)
ResnetRotate == Rotate(resnet20)
ResnetCallReturn == CallReturn(resnet20)

\* after resnet20() returns: read_inferenced_label_with_key(sk, ctxtResult,
\* 10, outFile) decrypts the result, which is then serialized for download
ServerReadInferencedLabel ==
    /\ pc = Len(resnet20) + 1 /\ ~failed
    /\ decrypted' = decrypted + 1
    /\ pc' = pc + 1
    /\ UNCHANGED <<call, ret, ri, loaded, group, lastRot, failed, opLog,
                   image, skRead>>

\* a loop whose later iterations enter resnet20() after its key read
ServerNextImage_after_read ==
    /\ pc = Len(resnet20) + 2 /\ ~failed
    /\ image < MaxBatch
    /\ image' = image + 1
    /\ pc' = 2
    /\ opLog' = <<>>
    /\ UNCHANGED <<call, ret, ri, loaded, group, lastRot, failed, skRead,
                   decrypted>>

\* the next iteration of the loop over the batch
ServerNextImage ==
    /\ pc = Len(resnet20) + 2 /\ ~failed
    /\ image < MaxBatch
    /\ image' = image + 1
    /\ pc' = 1
    /\ opLog' = <<>>
    /\ UNCHANGED <<call, ret, ri, loaded, group, lastRot, failed, skRead,
                   decrypted>>

InitResnet ==
    /\ call = NoValue /\ ret = NoValue
    /\ pc = 0 /\ ri = 0 /\ loaded = {} /\ group = "" /\ lastRot = 0
    /\ failed = FALSE /\ opLog = <<>> /\ image = 0
    /\ skRead = FALSE /\ decrypted = 0

NextResnet == \/ ServerSetup
              \/ ResnetReadEvaluationKeys
              \/ ResnetRotate
              \/ ResnetCallReturn
              \/ ServerReadInferencedLabel
              \/ ServerNextImage
SpecResnet == InitResnet /\ [][NextResnet]_vars

\* C3: during a resnet20() run every nonzero offset a kernel passes to
\* EvalRotate / EvalFastRotation is in the rotation-key group loaded at that
\* moment (ri > 0: the kernel at pc has rotated and lastRot is its latest
\* offset), the loaded group being one of the four the key generator wrote.
C3_ResnetKeyCoverage ==
    ri > 0 => /\ lastRot # 0 => lastRot \in loaded
              /\ group \in DOMAIN resnet20_generate_rotation_keys
              /\ loaded = Range(resnet20_generate_rotation_keys[group])

\* the global average pool has made its last rotation (-48) under layer 4,
\* so every convolution and both fused kernels have run before it
C3_Witness ==
    /\ ~failed /\ ri > 0 /\ pc \in 1..Len(resnet20)
    /\ resnet20[pc].op = "he_globalavgpool" /\ ri = Len(resnet20[pc].rots)
    /\ lastRot = 0 - 48 /\ group = "layer4_rk.bin"

\* what the block named b has done so far, in the schedule's names
BlockName(e) ==
    IF e.op = "he_relu" THEN "ReLU"
    ELSE IF e.op = "bootstrap_function" THEN "bootstrap"
    ELSE IF e.op = "he_sum_two_ciphertexts" THEN "add-shortcut"
    ELSE IF e.op = "he_convolution_and_shortcut_optimized" THEN "conv1"
    ELSE IF e.layer = e.block \o "_conv1" THEN "conv1"
    ELSE IF e.layer = e.block \o "_conv2" THEN "conv2"
    ELSE e.op

BlockObserved(b) ==
    LET done == SelectSeq(opLog, LAMBDA e : e.block = b /\ e.op # "resnet_block")
    IN  Tup([k \in 1..Len(done) |-> BlockName(done[k])], Len(done))

BlockSchedule(bootstrapState) ==
    <<"conv1">> \o (IF bootstrapState THEN <<"bootstrap">> ELSE <<>>)
    \o <<"ReLU", "conv2", "add-shortcut", "bootstrap", "ReLU">>

\* C7: each residual block runs conv1, then a bootstrap only if its
\* bootstrap flag is set (none otherwise, never more than one), then ReLU,
\* conv2, add-shortcut, bootstrap, ReLU: what a block entered with flag f has
\* done so far is always a prefix of that schedule.
C7_BlockSchedule ==
    \A i \in 1..Len(opLog) :
        opLog[i].op = "resnet_block" =>
            IsPrefix(BlockObserved(opLog[i].block),
                     BlockSchedule(opLog[i].flags[1]))

\* the key-file reads, the blocks entered, the fused kernel's uses and the
\* tail of the current image, each with the width it was given
ResnetKind(e) ==
    IF e.op = "harness_read_evaluation_keys" THEN "load"
    ELSE IF e.op = "resnet_block" THEN "block"
    ELSE IF e.op = "he_convolution_and_shortcut_optimized" THEN "fused"
    ELSE IF e.op = "he_globalavgpool" THEN "pool"
    ELSE IF e.op = "he_linear_optimized" THEN "fc"
    ELSE IF e.op = "he_convolution_optimized" /\ e.layer = "layer0_conv1"
    THEN "conv"
    ELSE ""

ResnetObserved ==
    LET done == SelectSeq(opLog, LAMBDA e : ResnetKind(e) # "")
    IN  Tup([k \in 1..Len(done) |->
                <<ResnetKind(done[k]), done[k].layer, done[k].inputWidth>>],
            Len(done))

ResnetSchedule ==
    <<<<"load", "layer1_rk.bin", 0>>, <<"conv", "layer0_conv1", 32>>,
      <<"block", "layer1_block1", 32>>, <<"block", "layer1_block2", 32>>,
      <<"block", "layer1_block3", 32>>,
      <<"load", "layer2_rk.bin", 0>>,
      <<"block", "layer2_block1", 32>>, <<"fused", "layer2_block1", 32>>,
      <<"block", "layer2_block2", 16>>, <<"block", "layer2_block3", 16>>,
      <<"load", "layer3_rk.bin", 0>>,
      <<"block", "layer3_block1", 16>>, <<"fused", "layer3_block1", 16>>,
      <<"block", "layer3_block2", 8>>, <<"block", "layer3_block3", 8>>,
      <<"load", "layer4_rk.bin", 0>>,
      <<"pool", "", 8>>, <<"fc", "layer_fc", 0>>>>

\* C8: for each image the driver reads layer1..layer4 in that order, each
\* once: layer1 before the initial convolution, layer2 before the first
\* stage-2 block, layer3 before the first stage-3 block, layer4 before the
\* pool and classifier; only the first block of stage 2 and of stage 3 uses
\* the fused kernel, and the width handed on goes 32 -> 16 -> 8.
C8_GroupSchedule ==
    /\ IsPrefix(ResnetObserved, ResnetSchedule)
    /\ (pc > Len(resnet20) /\ ~failed) => ResnetObserved = ResnetSchedule

\* resnet20() has returned on the second image with the whole schedule done
C8_Witness ==
    /\ pc = Len(resnet20) + 1 /\ ~failed /\ image = 2
    /\ ResnetObserved = ResnetSchedule

\* C9: in the server's compute path the secret key is never read and no
\* ciphertext is decrypted.
C9_BlindServer == ~skRead /\ decrypted = 0

(***************************************************************************)
(* The fully connected kernels on data, and a driver that calls one and    *)
(* hands what it returns to its next call.                                 *)
(***************************************************************************)
MaxRows     == 2      \* rows of the weight matrix
LinearSlots == 4      \* slots of the ciphertext

\* the number of doublings EvalSum makes for a batch of n slots
RECURSIVE CeilLog2(_)
CeilLog2(n) == IF n <= 1 THEN 0 ELSE 1 + CeilLog2((n + 1) \div 2)

\* context->EvalSum(ct, batchSize): every slot becomes the sum of the
\* batch starting at it
EvalSum(ct, batchSize) ==
    LET n == Len(ct.slots)
        RECURSIVE Doubled(_, _)
        Doubled(c, r) ==
            IF r = CeilLog2(batchSize) THEN c
            ELSE Doubled(EvalAdd(c, EvalRotate(c, Pow2(r))), r + 1)
    IN  Doubled(ct, 0)

\* context->EvalMerge(cts): slot j of the result is slot 0 of cts[j]
EvalMerge(cts, n) ==
    [slots |-> Tup([i \in 1..n |-> IF i <= Len(cts) THEN cts[i].slots[1]
                                   ELSE 0], n),
     depth |-> 1 + cts[1].depth]

RECURSIVE EvalAddMany(_)
EvalAddMany(cts) ==
    IF Len(cts) = 1 THEN cts[1]
    ELSE EvalAdd(cts[1], EvalAddMany(Tail(cts)))

\* the dot products of the outputs first .. last, one ciphertext each
InnerMatrix(encryptedInput, weightMatrix, inputSize, first, last) ==
    Tup([k \in 1..(last - first + 1) |->
            EvalSum(EvalMult(encryptedInput, weightMatrix[first + k]),
                    inputSize)],
        last - first + 1)

\* a kernel that leaves every merged group at slot 0
he_linear_unrotated(encryptedInput, weightMatrix, biasInput, inputSize, outputSize, rotatePositions) ==
    LET n == Len(encryptedInput.slots)
        groups == (outputSize + rotatePositions - 1) \div rotatePositions
        merged(g) ==
            LET first == g * rotatePositions
                last  == IF first + rotatePositions < outputSize
                         THEN first + rotatePositions - 1
                         ELSE outputSize - 1
            IN  EvalMerge(InnerMatrix(encryptedInput, weightMatrix,
                                      inputSize, first, last), n)
    IN  IF outputSize > Len(weightMatrix)
        THEN encryptedInput
        ELSE EvalAdd(EvalAddMany(Tup([g \in 1..groups |-> merged(g - 1)],
                                     groups)),
                     [slots |-> biasInput, depth |-> 0])

he_linear(encryptedInput, weightMatrix, biasInput, inputSize, outputSize, rotatePositions) ==
    LET output_size == Len(weightMatrix)
        n == Len(encryptedInput.slots)
        groups == (outputSize + rotatePositions - 1) \div rotatePositions
        merged(g) ==
            LET first == g * rotatePositions
                last  == IF first + rotatePositions < outputSize
                         THEN first + rotatePositions - 1
                         ELSE outputSize - 1
                m == EvalMerge(InnerMatrix(encryptedInput, weightMatrix,
                                           inputSize, first, last), n)
            IN  IF first > 0 THEN EvalRotate(m, 0 - first) ELSE m
        result_matrix == Tup([g \in 1..groups |-> merged(g - 1)], groups)
    IN  IF outputSize > output_size
        THEN encryptedInput
        ELSE EvalAdd(EvalAddMany(result_matrix),
                     [slots |-> biasInput, depth |-> 0])

he_linear_optimized(encryptedInput, weightMatrix, biasInput, inputSize, outputSize) ==
    LET output_size == Len(weightMatrix)
        n == Len(encryptedInput.slots)
    IN  IF outputSize > output_size
        THEN encryptedInput
        ELSE EvalAdd(EvalMerge(InnerMatrix(encryptedInput, weightMatrix,
                                           inputSize, 0, outputSize - 1), n),
                     [slots |-> biasInput, depth |-> 0])

\* what the kernel writes to cout
LinearMessage(weightMatrix, outputSize) ==
    IF outputSize > Len(weightMatrix)
    THEN "There is an error: ouputsize cannot be larger than weightedMatrix"
    ELSE ""

WeightRows ==
    {MakeCKKSPackedPlaintext(<<1>>, LinearSlots),
     MakeCKKSPackedPlaintext(<<1, 1>>, LinearSlots)}
WeightMatrices ==
    UNION {[1..r -> WeightRows] : r \in 1..MaxRows}

LinearCalls ==
    {[fn |-> f, encryptedInput |-> ct, weightMatrix |-> w,
      biasInput |-> MakeCKKSPackedPlaintext(<<1>>, LinearSlots),
      inputSize |-> Pow2(e), outputSize |-> o, rotatePositions |-> rp] :
        f \in {"he_linear"}, ct \in InputCts(LinearSlots),
        w \in WeightMatrices, e \in 0..1, o \in 1..(MaxRows + 1),
        rp \in 1..2}
    \cup
    {[fn |-> f, encryptedInput |-> ct, weightMatrix |-> w,
      biasInput |-> MakeCKKSPackedPlaintext(<<1>>, LinearSlots),
      inputSize |-> Pow2(e), outputSize |-> o, rotatePositions |-> 0] :
        f \in {"he_linear_optimized"}, ct \in InputCts(LinearSlots),
        w \in WeightMatrices, e \in 0..1, o \in 1..(MaxRows + 1)}

InitLinear ==
    /\ call \in LinearCalls /\ ret = NoValue
    /\ pc = 0 /\ ri = 0 /\ loaded = {} /\ group = "" /\ lastRot = 0
    /\ failed = FALSE /\ opLog = <<>> /\ image = 1
    /\ skRead = FALSE /\ decrypted = 0

\* convData = fheonANNController.he_linear(convData, ...)
RunLinear ==
    /\ call.fn = "he_linear" /\ pc = 0
    /\ ret' = [value |-> he_linear(call.encryptedInput, call.weightMatrix,
                                   call.biasInput, call.inputSize,
                                   call.outputSize, call.rotatePositions),
               cout |-> LinearMessage(call.weightMatrix, call.outputSize),
               encryptedInput |-> call.encryptedInput]
    /\ opLog' = Append(opLog, Entry(Step("he_linear", "", "", 0, <<>>)))
    /\ pc' = 1
    /\ UNCHANGED <<call, ri, loaded, group, lastRot, failed, image, skRead,
                   decrypted>>

\* Ctext fcData = fheonANNController.he_linear_optimized(encryptedInput, ...)
RunLinearOptimized ==
    /\ call.fn = "he_linear_optimized" /\ pc = 0
    /\ ret' = [value |-> he_linear_optimized(call.encryptedInput,
                                             call.weightMatrix,
                                             call.biasInput, call.inputSize,
                                             call.outputSize),
               cout |-> LinearMessage(call.weightMatrix, call.outputSize)]
    /\ opLog' = Append(opLog,
                       Entry(Step("he_linear_optimized", "", "", 0, <<>>)))
    /\ pc' = 1
    /\ UNCHANGED <<call, ri, loaded, group, lastRot, failed, image, skRead,
                   decrypted>>

\* the driver's next statement takes the returned ciphertext as its input:
\* convData = fheonHEController.bootstrap_function(convData)
DriverNextLayer ==
    /\ pc = 1
    /\ opLog' = Append(opLog,
                       Entry(Step("bootstrap_function", "", "", 0, <<>>)))
    /\ pc' = 2
    /\ UNCHANGED <<call, ret, ri, loaded, group, lastRot, failed, image,
                   skRead, decrypted>>

NextLinear == RunLinear \/ RunLinearOptimized \/ DriverNextLayer
SpecLinear == InitLinear /\ [][NextLinear]_vars

\* C10: when he_linear or he_linear_optimized is called with outputSize
\* greater than the number of weight rows, evaluation stops: the kernel hands
\* no ciphertext back to the driver and the driver runs no later layer.
C10_ShapeMismatchStops ==
    (call.outputSize > Len(call.weightMatrix)) => (ret = NoValue /\ pc = 0)

(***************************************************************************)
(* The executables' entry: the instance-size argument.  Every main() of    *)
(* the repository starts with the same check of argv and the same          *)
(* construction of InstanceParams.                                         *)
(***************************************************************************)
MaxArgLen == 2        \* characters of argv[1]

Programs ==
    {"lenet5/client_key_generation", "mlp/client_key_generation",
     "resnet20/client_key_generation", "common/client_encode_encrypt_input",
     "mlp/client_encode_encrypt_input",
     "resnet20/client_encode_encrypt_input",
     "mlp/server_encrypted_compute", "resnet20/server_encrypted_compute",
     "common/client_decrypt_decode"}

ArgChars == {"0", "3", "4", "9", "a", "-"}

\* std::isdigit; argv[1][0] of an empty argument is the terminating NUL
isdigit(c) == c \in {"0", "3", "4", "9"}
DigitValue(c) == IF c = "0" THEN 0 ELSE IF c = "3" THEN 3
                 ELSE IF c = "4" THEN 4 ELSE 9

\* std::stoi on a string whose first character is a digit: the value of the
\* leading run of digits
RECURSIVE stoi_from(_, _, _)
stoi_from(s, i, acc) ==
    IF i > Len(s) \/ ~isdigit(s[i]) THEN acc
    ELSE stoi_from(s, i + 1, 10 * acc + DigitValue(s[i]))
stoi(s) == stoi_from(s, 1, 0)

\* InstanceParams::InstanceParams: throws on a size above LARGE
LARGE == 3
InstanceParams(size) ==
    IF size > LARGE THEN [thrown |-> "std::invalid_argument"]
    ELSE [thrown |-> ""]

MainCalls ==
    {[program |-> p, argc |-> 1, argv1 |-> <<>>] : p \in Programs}
    \cup {[program |-> p, argc |-> 2, argv1 |-> a] :
            p \in Programs,
            a \in UNION {[1..n -> ArgChars] : n \in 0..MaxArgLen}}

InitMain ==
    /\ call \in MainCalls /\ ret = NoValue
    /\ pc = 0 /\ ri = 0 /\ loaded = {} /\ group = "" /\ lastRot = 0
    /\ failed = FALSE /\ opLog = <<>> /\ image = 0
    /\ skRead = FALSE /\ decrypted = 0

\* if (argc < 2 || !isdigit(argv[1][0])) { cout << "Usage: ..."; return 0; }
MainUsage ==
    /\ pc = 0 /\ ret = NoValue
    /\ IF call.argc < 2 \/ call.argv1 = <<>> THEN TRUE
       ELSE ~isdigit(call.argv1[1])
    /\ ret' = [status |-> "0", cout |-> "Usage"]
    /\ pc' = 3
    /\ UNCHANGED <<call, ri, loaded, group, lastRot, failed, opLog, image,
                   skRead, decrypted>>

\* auto size = static_cast<InstanceSize>(stoi(argv[1]));
\* InstanceParams prms(size);  an exception nobody catches ends the process
\* by std::terminate (abort)
MainInstanceParams ==
    /\ pc = 0 /\ ret = NoValue
    /\ call.argc >= 2 /\ call.argv1 # <<>> /\ isdigit(call.argv1[1])
    /\ IF InstanceParams(stoi(call.argv1)).thrown # ""
       THEN /\ ret' = [status |-> "SIGABRT", cout |-> ""]
            /\ failed' = TRUE
            /\ pc' = 3
       ELSE /\ pc' = 1
            /\ UNCHANGED <<ret, failed>>
    /\ UNCHANGED <<call, ri, loaded, group, lastRot, opLog, image, skRead,
                   decrypted>>

\* the rest of main(): the program's key, encryption, inference or
\* decryption work; a failing read or write throws
MainWork ==
    /\ pc = 1
    /\ opLog' = Append(opLog, Entry(Step(call.program, "", "", 0, <<>>)))
    /\ \E io_ok \in BOOLEAN :
          IF io_ok
          THEN ret' = [status |-> "0", cout |-> ""] /\ failed' = FALSE
          ELSE ret' = [status |-> "SIGABRT", cout |-> ""] /\ failed' = TRUE
    /\ pc' = 3
    /\ UNCHANGED <<call, ri, loaded, group, lastRot, image, skRead,
                   decrypted>>

NextMain == MainUsage \/ MainInstanceParams \/ MainWork
SpecMain == InitMain /\ [][NextMain]_vars

\* the argument is missing, is not a number, or is outside 0..3
BadInstanceSize ==
    \/ call.argc < 2
    \/ call.argv1 = <<>>
    \/ \E i \in 1..Len(call.argv1) : ~isdigit(call.argv1[i])
    \/ stoi(call.argv1) > 3

\* C11: an executable started with no instance size, a non-numeric one or
\* one outside 0..3 does no key, encryption or inference work and, once it
\* has ended, has a nonzero exit status.
C11_BadInstanceSize ==
    BadInstanceSize => /\ opLog = <<>>
                       /\ pc = 3 => ret.status # "0"

(***************************************************************************)
(* Weight files.  loadCSV returns no rows for a file it cannot open; the   *)
(* loaders then read from the empty data.                                  *)
(***************************************************************************)
\* the loads of convolution_block, double_shortcut_convolution_block and
\* fc_layer_block, made each time the block is called
convolution_block_loads(layer) ==
    <<Step("load_bias", layer \o "_bias.csv", "", 0, <<>>),
      Step("load_weights", layer \o "_weight.csv", "", 0, <<>>)>>

double_shortcut_convolution_block_loads(layer) ==
    <<Step("load_bias", layer \o "_conv1_bias.csv", "", 0, <<>>),
      Step("load_bias", layer \o "_shortcut_bias.csv", "", 0, <<>>),
      Step("load_weights", layer \o "_conv1_weight.csv", "", 0, <<>>),
      Step("load_fc_weights", layer \o "_shortcut_weight.csv", "", 0, <<>>)>>

fc_layer_block_loads(layer) ==
    <<Step("load_bias", layer \o "_bias.csv", "", 0, <<>>),
      Step("load_fc_weights", layer \o "_weight.csv", "", 0, <<>>)>>

\* the blocks as their statements in order, loads included, rotations
\* left out
Call(op, layer) == Step(op, layer, "", 0, <<>>)

convolution_block_statements(layer) ==
    convolution_block_loads(layer)
    \o <<Call("he_convolution_optimized", layer)>>

double_shortcut_convolution_block_statements(layer) ==
    double_shortcut_convolution_block_loads(layer)
    \o <<Call("he_convolution_and_shortcut_optimized", layer)>>

fc_layer_block_statements(layer) ==
    fc_layer_block_loads(layer) \o <<Call("he_linear_optimized", layer)>>

resnet_block_statements(layer, bootstrapState, shortcutConv) ==
    (IF shortcutConv
     THEN <<Call("bootstrap_function", layer)>>
          \o double_shortcut_convolution_block_statements(layer)
     ELSE convolution_block_statements(layer \o "_conv1"))
    \o (IF bootstrapState THEN <<Call("bootstrap_function", layer)>>
        ELSE <<>>)
    \o <<Call("bootstrap_function", layer), Call("he_relu", layer)>>
    \o convolution_block_statements(layer \o "_conv2")
    \o <<Call("he_sum_two_ciphertexts", layer),
         Call("bootstrap_function", layer), Call("he_relu", layer)>>

resnet20_statements ==
    <<Call("harness_read_evaluation_keys", "layer1_rk.bin"),
      Call("EvalBootstrapSetup", "")>>
    \o convolution_block_statements("layer0_conv1")
    \o <<Call("he_relu", "layer0_conv1")>>
    \o resnet_block_statements("layer1_block1", FALSE, FALSE)
    \o resnet_block_statements("layer1_block2", TRUE, FALSE)
    \o resnet_block_statements("layer1_block3", TRUE, FALSE)
    \o <<Call("harness_read_evaluation_keys", "layer2_rk.bin")>>
    \o resnet_block_statements("layer2_block1", TRUE, TRUE)
    \o resnet_block_statements("layer2_block2", TRUE, FALSE)
    \o resnet_block_statements("layer2_block3", TRUE, FALSE)
    \o <<Call("harness_read_evaluation_keys", "layer3_rk.bin")>>
    \o resnet_block_statements("layer3_block1", TRUE, TRUE)
    \o resnet_block_statements("layer3_block2", TRUE, FALSE)
    \o resnet_block_statements("layer3_block3", TRUE, FALSE)
    \o <<Call("harness_read_evaluation_keys", "layer4_rk.bin"),
         Call("bootstrap_function", ""), Call("he_globalavgpool", "")>>
    \o fc_layer_block_statements("layer_fc")

\* lenet5(): after the key read at its entry, all ten files are loaded
\* before the first kernel
lenet5_loads ==
    <<Step("load_bias", "Conv1_bias.csv", "", 0, <<>>),
      Step("load_weights", "Conv1_weight.csv", "", 0, <<>>),
      Step("load_bias", "Conv2_bias.csv", "", 0, <<>>),
      Step("load_weights", "Conv2_weight.csv", "", 0, <<>>),
      Step("load_bias", "FC1_bias.csv", "", 0, <<>>),
      Step("load_fc_weights", "FC1_weight.csv", "", 0, <<>>),
      Step("load_bias", "FC2_bias.csv", "", 0, <<>>),
      Step("load_fc_weights", "FC2_weight.csv", "", 0, <<>>),
      Step("load_bias", "FC3_bias.csv", "", 0, <<>>),
      Step("load_fc_weights", "FC3_weight.csv", "", 0, <<>>)>>

lenet5_statements ==
    <<Call("harness_read_evaluation_keys", "layer1_rk.bin")>>
    \o lenet5_loads
    \o <<Call("he_convolution", "Conv1"), Call("he_relu", "Conv1"),
         Call("he_avgpool_optimzed", "AvgPool1"),
         Call("harness_read_evaluation_keys", "layer2_rk.bin"),
         Call("he_convolution", "Conv2"), Call("he_relu", "Conv2"),
         Call("bootstrap_function", "Conv2"),
         Call("he_avgpool_optimzed", "AvgPool2"),
         Call("harness_read_evaluation_keys", "layer3_rk.bin"),
         Call("he_linear", "FC1"), Call("bootstrap_function", "FC1"),
         Call("he_relu", "FC1"),
         Call("he_linear", "FC2"), Call("bootstrap_function", "FC2"),
         Call("he_relu", "FC2"),
         Call("he_linear", "FC3")>>

LoadOps == {"load_bias", "load_weights", "load_fc_weights"}
WeightProgram(driver) ==
    IF driver = "lenet5" THEN lenet5_statements ELSE resnet20_statements
WeightFiles(driver) ==
    {WeightProgram(driver)[i].layer :
        i \in {j \in 1..Len(WeightProgram(driver)) :
                  WeightProgram(driver)[j].op \in LoadOps}}

\* a server run with at most one weight or bias file that cannot be opened
WeightCalls ==
    {[driver |-> d, missing |-> {}] : d \in {"lenet5", "resnet20"}}
    \cup UNION {{[driver |-> d, missing |-> {f}] : f \in WeightFiles(d)} :
                   d \in {"lenet5", "resnet20"}}

InitWeights ==
    /\ call \in WeightCalls /\ ret = NoValue
    /\ pc = 1 /\ ri = 0 /\ loaded = {} /\ group = "" /\ lastRot = 0
    /\ failed = FALSE /\ opLog = <<>> /\ image = 1
    /\ skRead = FALSE /\ decrypted = 0

\* what loadCSV writes to cerr for the file of a load, if anything
loadCSV_cerr(step, missing) ==
    IF step.layer \in missing
    THEN <<Entry(Call("cerr: Error opening file", step.layer))>>
    ELSE <<>>

\* load_bias: the first row of the data, or an empty bias when there is no
\* row; the caller goes on
LoadBias ==
    LET prog == WeightProgram(call.driver) IN
    /\ pc \in 1..Len(prog) /\ ~failed
    /\ prog[pc].op = "load_bias"
    /\ opLog' = opLog \o loadCSV_cerr(prog[pc], call.missing)
    /\ pc' = pc + 1
    /\ UNCHANGED <<call, ret, ri, loaded, group, lastRot, failed, image,
                   skRead, decrypted>>

\* load_weights / load_fc_weights: raw_weights stays empty when the data has
\* no row, and reshapedData[..] = raw_weights[indexVal] then reads outside
\* it: the process is killed by the read, or the read yields whatever is
\* there and the loader returns
LoadWeights ==
    LET prog == WeightProgram(call.driver) IN
    /\ pc \in 1..Len(prog) /\ ~failed
    /\ prog[pc].op \in {"load_weights", "load_fc_weights"}
    /\ IF prog[pc].layer \in call.missing
       THEN \E outcome \in {"SIGSEGV", "garbage"} :
               /\ opLog' = opLog \o loadCSV_cerr(prog[pc], call.missing)
                           \o <<Entry(Call("raw_weights[indexVal]",
                                           prog[pc].layer))>>
               /\ failed' = (outcome = "SIGSEGV")
               /\ pc' = IF outcome = "SIGSEGV" THEN pc ELSE pc + 1
       ELSE /\ pc' = pc + 1
            /\ UNCHANGED <<opLog, failed>>
    /\ UNCHANGED <<call, ret, ri, loaded, group, lastRot, image, skRead,
                   decrypted>>

\* any other statement of the driver: a key read, a kernel, a bootstrap
Evaluate ==
    LET prog == WeightProgram(call.driver) IN
    /\ pc \in 1..Len(prog) /\ ~failed
    /\ prog[pc].op \notin LoadOps
    /\ opLog' = Append(opLog, Entry(prog[pc]))
    /\ pc' = pc + 1
    /\ UNCHANGED <<call, ret, ri, loaded, group, lastRot, failed, image,
                   skRead, decrypted>>

NextWeights == LoadBias \/ LoadWeights \/ Evaluate
SpecWeights == InitWeights /\ [][NextWeights]_vars

\* the calls that work on the image's ciphertext
HomomorphicOps ==
    {"he_convolution", "he_convolution_optimized",
     "he_convolution_and_shortcut_optimized", "he_relu",
     "he_avgpool_optimzed", "he_globalavgpool", "he_linear",
     "he_linear_optimized", "he_sum_two_ciphertexts", "bootstrap_function"}

\* C12: once a weight or bias file could not be opened the run has stopped:
\* no layer has been evaluated on the image, before or after, and no
\* element has been read from the empty data.
C12_MissingWeightFile ==
    (\E i \in 1..Len(opLog) : opLog[i].op = "cerr: Error opening file") =>
        /\ failed
        /\ \A j \in 1..Len(opLog) :
              /\ opLog[j].op \notin HomomorphicOps
              /\ opLog[j].op # "raw_weights[indexVal]"

(***************************************************************************)
(* Levels.  The contexts are built with FLEXIBLEAUTO, so a ciphertext      *)
(* carries a level and a noise-scale degree; the levels it has used are    *)
(* level + (noiseScaleDeg - 1), as printBootsrappingData counts them.  A   *)
(* product has degree 2 and is rescaled when it is next multiplied.        *)
(***************************************************************************)
MaxLevel == 3

LevelCt(level, noiseScaleDeg) ==
    [level |-> level, noiseScaleDeg |-> noiseScaleDeg]
GetLevel(ct) == ct.level
LevelsUsed(ct) == ct.level + (ct.noiseScaleDeg - 1)

\* a ciphertext meeting a plaintext encoded at ptLevel
Meet(op, plaintext, ct, ptLevel) ==
    [op |-> op, plaintext |-> plaintext, ctLevel |-> LevelsUsed(ct),
     ptLevel |-> ptLevel]
EvalMultLevel(ct, ptLevel) == LevelCt(Max(LevelsUsed(ct), ptLevel), 2)
EvalAddLevel(ct, ptLevel) ==
    IF ptLevel > LevelsUsed(ct) THEN LevelCt(ptLevel, 1) ELSE ct

\* encode_input, encode_kernel and encode_bais_input without a level
\* argument encode at the default of the header
DefaultEncodeLevel == 1

\* the doubling loop of downsample: every mask at the level of the input
RECURSIVE DownsampleDoublingLevels(_, _, _, _)
DownsampleDoublingLevels(result, s, iters, level) ==
    IF s > iters THEN [ct |-> result, meets |-> <<>>]
    ELSE LET rest == DownsampleDoublingLevels(EvalMultLevel(result, level),
                                              s + 1, iters, level)
         IN  [ct |-> rest.ct,
              meets |-> <<Meet("EvalMult", "generate_binary_mask", result,
                               level)>> \o rest.meets]

downsample_levels(input, inputWidth, stride) ==
    LET outputWidth == inputWidth \div stride
        level == GetLevel(input)
        r0 == EvalMultLevel(input, level)
        r1 == DownsampleDoublingLevels(r0, 1, Log2Iters(outputWidth), level)
        masked == EvalMultLevel(r1.ct, level)
    IN  [ct |-> masked,
         meets |->
            <<Meet("EvalMult", "first_mask", input, level)>>
            \o r1.meets
            \o <<Meet("EvalMult", "generate_zero_mask", input, level)>>
            \o Tup([row \in 1..outputWidth |->
                       Meet("EvalMult", "generate_row_mask", r1.ct, level)],
                   outputWidth)]

\* he_relu: the scale mask is encoded at level 0; the result is the
\* ciphertext handed to EvalChebyshevFunction
he_relu_levels(encryptedInput, scaleValue) ==
    IF scaleValue > 1
    THEN [ct |-> EvalMultLevel(encryptedInput, 0),
          meets |-> <<Meet("EvalMult", "generate_scale_mask",
                           encryptedInput, 0)>>]
    ELSE [ct |-> encryptedInput, meets |-> <<>>]

\* he_convolution with stride 1: kernel values, cleaning_mask,
\* cleaning_mask_out, bias
he_convolution_levels(encryptedInput, kernelLevel, biasLevel) ==
    LET encode_level == GetLevel(encryptedInput)
        conv_sum == EvalMultLevel(encryptedInput, kernelLevel)
        cleaned  == EvalMultLevel(conv_sum, encode_level)
        strided  == EvalMultLevel(cleaned, encode_level)
    IN  [ct |-> EvalAddLevel(strided, biasLevel),
         meets |->
            <<Meet("EvalMult", "kernelData", encryptedInput, kernelLevel),
              Meet("EvalMult", "cleaning_mask", conv_sum, encode_level),
              Meet("EvalMult", "cleaning_mask_out", cleaned, encode_level),
              Meet("EvalAdd", "biasInput", strided, biasLevel)>>]

\* he_convolution_optimized with stride 1: kernel values, cleaning_mask, bias
he_convolution_optimized_levels(encryptedInput, kernelLevel, biasLevel) ==
    LET encode_level == GetLevel(encryptedInput)
        kernelSum   == EvalMultLevel(encryptedInput, kernelLevel)
        interCipher == EvalMultLevel(kernelSum, encode_level)
    IN  [ct |-> EvalAddLevel(interCipher, biasLevel),
         meets |->
            <<Meet("EvalMult", "kernelData", encryptedInput, kernelLevel),
              Meet("EvalMult", "cleaning_mask", kernelSum, encode_level),
              Meet("EvalAdd", "biasInput", interCipher, biasLevel)>>]

\* lenet5(): kernels and biases encoded without a level argument
lenet5_convolution_levels(encryptedInput) ==
    he_convolution_levels(encryptedInput, DefaultEncodeLevel,
                          DefaultEncodeLevel)

\* convolution_block: kernels and bias encoded at the level of the input
convolution_block_levels(encrytedInput) ==
    he_convolution_optimized_levels(encrytedInput, GetLevel(encrytedInput),
                                    GetLevel(encrytedInput))

\* the client's ciphertext, and a ciphertext somewhere inside the network
FreshCt == LevelCt(0, 1)
LevelCts == {LevelCt(l, d) : l \in 0..MaxLevel, d \in {1, 2}}

LevelCalls ==
    {[fn |-> "downsample", input |-> ct, inputWidth |-> w[1], stride |-> w[2]] :
        <<w, ct>> \in {p \in Widths \X Widths : p[2] <= p[1]} \X LevelCts}
    \cup {[fn |-> "he_relu", input |-> ct, scaleValue |-> sv] :
            <<ct, sv>> \in LevelCts \X {1, 10}}
    \cup {[fn |-> "he_convolution", input |-> ct, layer |-> "Conv2"] :
            ct \in LevelCts}
    \cup {[fn |-> "he_convolution", input |-> FreshCt, layer |-> "Conv1"]}
    \cup {[fn |-> "convolution_block", input |-> ct] : ct \in LevelCts}

InitLevels == call \in LevelCalls /\ ret = NoValue /\ DriverIdle

DownsampleMeets ==
    /\ call.fn = "downsample" /\ pc = 0
    /\ LET r == downsample_levels(call.input, call.inputWidth, call.stride)
       IN  ret' = [ct |-> r.ct] /\ opLog' = r.meets
    /\ pc' = 1
    /\ UNCHANGED <<call, ri, loaded, group, lastRot, failed, image, skRead,
                   decrypted>>

ReluMeets ==
    /\ call.fn = "he_relu" /\ pc = 0
    /\ LET r == he_relu_levels(call.input, call.scaleValue)
       IN  ret' = [ct |-> r.ct] /\ opLog' = r.meets
    /\ pc' = 1
    /\ UNCHANGED <<call, ri, loaded, group, lastRot, failed, image, skRead,
                   decrypted>>

LenetConvolutionMeets ==
    /\ call.fn = "he_convolution" /\ pc = 0
    /\ LET r == lenet5_convolution_levels(call.input)
       IN  ret' = [ct |-> r.ct] /\ opLog' = r.meets
    /\ pc' = 1
    /\ UNCHANGED <<call, ri, loaded, group, lastRot, failed, image, skRead,
                   decrypted>>

ConvolutionBlockMeets ==
    /\ call.fn = "convolution_block" /\ pc = 0
    /\ LET r == convolution_block_levels(call.input)
       IN  ret' = [ct |-> r.ct] /\ opLog' = r.meets
    /\ pc' = 1
    /\ UNCHANGED <<call, ri, loaded, group, lastRot, failed, image, skRead,
                   decrypted>>

NextLevels ==
    \/ DownsampleMeets \/ ReluMeets \/ LenetConvolutionMeets
    \/ ConvolutionBlockMeets
SpecLevels == InitLevels /\ [][NextLevels]_vars

\* C13: every weight, bias or mask plaintext a ciphertext is multiplied or
\* added with was encoded at exactly the level the ciphertext has used at
\* that moment.
C13_LevelMatching ==
    pc = 1 => \A i \in 1..Len(opLog) : opLog[i].ptLevel = opLog[i].ctLevel

(***************************************************************************)
(* Convolution on the slots: encode_kernel and he_convolution.             *)
(***************************************************************************)
MaxConvW        == 3      \* feature-map widths 2 .. MaxConvW
MaxConvChannels == 2      \* input and output channels 1 .. MaxConvChannels
\* the slots of the ring hold the tiles of every channel, also when each is
\* padded by one on every side
MaxConvPadding == 1

ConvSlots ==
    Pow2(CeilLog2(MaxConvChannels * (MaxConvW + 2 * MaxConvPadding)
                                  * (MaxConvW + 2 * MaxConvPadding)))

\* ones_width ones followed by vector_size - ones_width zeros (the callers
\* here pass vector_size >= ones_width)
generate_mixed_mask(ones_width, vector_size) ==
    Tup([i \in 1..vector_size |-> IF i <= ones_width THEN 1 ELSE 0],
        vector_size)

encode_input(inputData) == MakeCKKSPackedPlaintext(inputData, ConvSlots)

\* each bias value cols_square times, one run after the other
encode_bais_input(inputData, cols_square) ==
    MakeCKKSPackedPlaintext(
        Tup([e \in 1..(Len(inputData) * cols_square) |->
                inputData[((e - 1) \div cols_square) + 1]],
            Len(inputData) * cols_square), ConvSlots)

\* an encoder that reads the kernel by columns
encode_kernel_transposed(kernelData, cols_square) ==
    LET dim1 == Len(kernelData)
        dim2 == Len(kernelData[1])
        dim3 == Len(kernelData[1][1])
    IN  Tup([t \in 1..(dim2 * dim2) |->
                encode_input(
                    Tup([e \in 1..(dim1 * cols_square) |->
                            kernelData[((e - 1) \div cols_square) + 1]
                                      [((t - 1) % dim3) + 1]
                                      [((t - 1) \div dim3) + 1]],
                        dim1 * cols_square))],
            dim2 * dim2)

\* kernelData[k][i][j] of one output channel: plaintext t = i * dim3 + j
\* holds, for every input channel k in turn, cols_square copies of the
\* kernel value at (i, j)
encode_kernel(kernelData, cols_square) ==
    LET dim1 == Len(kernelData)
        dim2 == Len(kernelData[1])
        dim3 == Len(kernelData[1][1])
    IN  Tup([t \in 1..(dim2 * dim2) |->
                encode_input(
                    Tup([e \in 1..(dim1 * cols_square) |->
                            kernelData[((e - 1) \div cols_square) + 1]
                                      [((t - 1) \div dim3) + 1]
                                      [((t - 1) % dim3) + 1]],
                        dim1 * cols_square))],
            dim2 * dim2)

Plain(pt) == [slots |-> pt, depth |-> 0]

he_convolution(encryptedInput, kernelData, biasInput, inputWidth, inputChannels, outputChannels, kernelWidth, paddingLen, stride) ==
    LET n           == Len(encryptedInput.slots)
        kernelSq    == kernelWidth * kernelWidth
        inputSize   == inputWidth * inputWidth
        outputWidth == ((inputWidth - kernelWidth) \div stride) + 1
        outputSize  == outputWidth * outputWidth
        zero_elements == IF inputChannels < 2 THEN inputSize
                         ELSE inputSize * (inputChannels - 1)
        cleaning_mask ==
            MakeCKKSPackedPlaintext(
                generate_mixed_mask(inputSize, zero_elements), n)
        cleaning_mask_out ==
            MakeCKKSPackedPlaintext(
                generate_mixed_mask(outputWidth, zero_elements), n)
        \* STEP 2: slice i * kernelWidth + j is the input rotated by
        \* i * inputWidth and then by j
        rotated_ciphertexts ==
            Tup([k \in 1..kernelSq |->
                    LET i == (k - 1) \div kernelWidth
                        j == (k - 1) % kernelWidth
                        row == EvalRotate(encryptedInput, i * inputWidth)
                    IN  IF j = 0 THEN row ELSE EvalRotate(row, j)],
                kernelSq)
        \* STEP 3, 4: products with the kernel values, sum over the input
        \* channels, cleaning mask
        summed(out_ch) ==
            LET conv_sum ==
                    EvalAddMany(Tup([k \in 1..kernelSq |->
                                        EvalMult(rotated_ciphertexts[k],
                                                 kernelData[out_ch + 1][k])],
                                    kernelSq))
                channels ==
                    IF inputChannels > 1
                    THEN EvalAddMany(
                            Tup([ch \in 1..inputChannels |->
                                    EvalRotate(conv_sum,
                                               (ch - 1) * inputSize)],
                                inputChannels))
                    ELSE conv_sum
            IN  EvalMult(channels, cleaning_mask)
        \* STEP 5: the rows of the output one after the other
        strided(conv_sum) ==
            IF stride > 1 THEN downsample(conv_sum, inputWidth, stride)
            ELSE EvalAddMany(
                    Tup([l \in 1..outputWidth |->
                            IF l = 1
                            THEN EvalMult(conv_sum, cleaning_mask_out)
                            ELSE EvalRotate(
                                    EvalMult(EvalRotate(conv_sum,
                                                 (l - 1) * inputWidth),
                                             cleaning_mask_out),
                                    0 - (outputWidth * (l - 1)))],
                        outputWidth))
        \* STEP 7: output channel out_ch at out_ch * outputSize
        final_vec ==
            Tup([o \in 1..outputChannels |->
                    IF o = 1 THEN strided(summed(0))
                    ELSE EvalRotate(strided(summed(o - 1)),
                                    0 - ((o - 1) * outputSize))],
                outputChannels)
    IN  EvalAdd(EvalAddMany(final_vec), Plain(biasInput))

nextPowerOf2(n) == IF n = 0 THEN 1 ELSE Pow2(CeilLog2(n))

\* a plaintext of num_slots slots fills the slots of the ring by repetition
encode_input_slots(inputData, num_slots) ==
    Tup([i \in 1..ConvSlots |->
            LET j == ((i - 1) % num_slots) + 1
            IN  IF j <= Len(inputData) THEN inputData[j] ELSE 0],
        ConvSlots)

\* starting_padding zeros, then windows of window_length ones and one zero
\* until max_length - ending_padding is reached, cut or filled with zeros to
\* max_length, the last ending_padding slots zeroed, tile_count times
build_tiled_mask_without_ending(starting_padding, ending_padding, window_length, max_length, tile_count) ==
    Tup([e \in 1..(max_length * tile_count) |->
            LET idx == (e - 1) % max_length
            IN  IF idx < starting_padding THEN 0
                ELSE IF (idx - starting_padding) % (window_length + 1)
                        < window_length THEN 1 ELSE 0],
        max_length * tile_count)

build_tiled_mask(starting_padding, ending_padding, window_length, max_length, tile_count) ==
    LET need    == max_length - ending_padding - starting_padding
        windows == IF need <= 0 THEN 0
                   ELSE (need + window_length) \div (window_length + 1)
        filled  == starting_padding + windows * (window_length + 1)
    IN  Tup([e \in 1..(max_length * tile_count) |->
                LET idx == (e - 1) % max_length
                IN  IF idx < starting_padding THEN 0
                    ELSE IF idx >= filled THEN 0
                    ELSE IF idx >= max_length - ending_padding THEN 0
                    ELSE IF (idx - starting_padding) % (window_length + 1)
                            < window_length THEN 1 ELSE 0],
            max_length * tile_count)

\* the nine masks of encode_kernel_optimized for tiles of vector_width^2
bin_masks(vector_width, cols_square, dim1) ==
    <<build_tiled_mask(vector_width + 1, 0, vector_width - 1, cols_square,
                       dim1),
      build_tiled_mask(vector_width, 0, cols_square, cols_square, dim1),
      build_tiled_mask(vector_width, 0, vector_width - 1, cols_square, dim1),
      build_tiled_mask(1, 0, vector_width - 1, cols_square, dim1),
      build_tiled_mask(0, 0, cols_square, cols_square, dim1),
      build_tiled_mask(0, 1, vector_width - 1, cols_square, dim1),
      build_tiled_mask(1, vector_width - 1, vector_width - 1, cols_square,
                       dim1),
      build_tiled_mask(0, vector_width, cols_square, cols_square, dim1),
      build_tiled_mask(0, vector_width + 1, vector_width - 1, cols_square,
                       dim1)>>

\* (int) sqrt(cols_square) for the squares met here
IntSqrt(n) == CHOOSE r \in 0..n : r * r <= n /\ (r + 1) * (r + 1) > n

encode_kernel_optimized(kernelData, cols_square) ==
    LET dim1 == Len(kernelData)
        dim2 == Len(kernelData[1])
        dim3 == Len(kernelData[1][1])
        masks == bin_masks(IntSqrt(cols_square), cols_square, dim1)
    IN  Tup([t \in 1..(dim2 * dim2) |->
                encode_input_slots(
                    Tup([e \in 1..(dim1 * cols_square) |->
                            kernelData[((e - 1) \div cols_square) + 1]
                                      [((t - 1) \div dim3) + 1]
                                      [((t - 1) % dim3) + 1]
                            * masks[t][e]],
                        dim1 * cols_square),
                    nextPowerOf2(dim1 * cols_square))],
            dim2 * dim2)

he_convolution_optimized(encryptedInput, kernelData, biasInput, inputWidth, inputChannels, outputChannels, stride) ==
    LET n          == Len(encryptedInput.slots)
        kernelSq   == 9
        inputSize  == inputWidth * inputWidth
        widthOut   == inputWidth \div stride
        outputSize == widthOut * widthOut
        first_shot  == EvalRotate(encryptedInput, 0 - 1)
        second_shot == EvalRotate(encryptedInput, 1)
        rotated_ciphertexts ==
            <<EvalRotate(first_shot, 0 - inputWidth),
              EvalRotate(encryptedInput, 0 - inputWidth),
              EvalRotate(second_shot, 0 - inputWidth),
              first_shot, encryptedInput, second_shot,
              EvalRotate(first_shot, inputWidth),
              EvalRotate(encryptedInput, inputWidth),
              EvalRotate(second_shot, inputWidth)>>
        cleaning_mask ==
            MakeCKKSPackedPlaintext(
                generate_mixed_mask(inputSize, inputChannels * inputSize), n)
        interCipher(outCh) ==
            LET kernelSum ==
                    EvalAddMany(Tup([j \in 1..kernelSq |->
                                        EvalMult(rotated_ciphertexts[j],
                                                 kernelData[outCh + 1][j])],
                                    kernelSq))
                sumVec ==
                    EvalAddMany(Tup([k \in 1..inputChannels |->
                                        EvalRotate(kernelSum,
                                                   (k - 1) * inputSize)],
                                    inputChannels))
                cleaned == EvalMult(sumVec, cleaning_mask)
            IN  IF stride # 1 THEN downsample(cleaned, inputWidth, stride)
                ELSE cleaned
        finalVec ==
            Tup([o \in 1..outputChannels |->
                    IF o = 1 THEN interCipher(0)
                    ELSE EvalRotate(interCipher(o - 1),
                                    0 - ((o - 1) * outputSize))],
                outputChannels)
    IN  EvalAdd(EvalAddMany(finalVec), Plain(biasInput))

\* tensors: an image x[i][r][c] as its tiled vector, and kernels
\* w[o][i][a][b]
UnitVec(n, k) == Tup([i \in 1..n |-> IF i = k THEN 1 ELSE 0], n)
RampVec(n)    == Tup([i \in 1..n |-> i], n)
Images(n)     == {UnitVec(n, k) : k \in 1..n} \cup {RampVec(n)}

Kernel4(flat, co, ci, k) ==
    Tup([o \in 1..co |->
        Tup([i \in 1..ci |->
            Tup([a \in 1..k |->
                Tup([b \in 1..k |->
                        flat[((o - 1) * ci + (i - 1)) * k * k
                             + (a - 1) * k + b]], k)], k)], ci)], co)

\* the optimised kernel takes 3x3 kernels whatever the width
ConvShapes ==
    {s \in [inputWidth : 2..MaxConvW, kernelWidth : 1..Max(3, MaxConvW),
            inputChannels : 1..MaxConvChannels,
            outputChannels : 1..MaxConvChannels] :
        s.kernelWidth <= s.inputWidth \/ s.kernelWidth = 3}

\* every unit image against the ramp kernel, the ramp image against every
\* unit kernel and against the ramp kernel
ConvData(s) ==
    LET nx == s.inputChannels * s.inputWidth * s.inputWidth
        nw == s.outputChannels * s.inputChannels * s.kernelWidth
              * s.kernelWidth
    IN  {<<x, RampVec(nw)>> : x \in Images(nx)}
        \cup {<<RampVec(nx), w>> : w \in Images(nw)}

BiasVec(co) == Tup([o \in 1..co |-> 10 * o], co)
ZeroVec(n)  == Tup([i \in 1..n |-> 0], n)

\* w[o][i] = the 3x3 kernel with a one at its centre when o = i
IdentityKernel(ch) ==
    Tup([o \in 1..ch |->
        Tup([i \in 1..ch |->
            Tup([a \in 1..3 |->
                Tup([b \in 1..3 |->
                        IF o = i /\ a = 2 /\ b = 2 THEN 1 ELSE 0], 3)], 3)],
            ch)], ch)

ConvCalls ==
    UNION {{[fn |-> "he_convolution", shape |-> s, image |-> d[1],
             rawKernel |-> Kernel4(d[2], s.outputChannels, s.inputChannels,
                                   s.kernelWidth),
             biasVec |-> BiasVec(s.outputChannels)] : d \in ConvData(s)} :
           s \in {q \in ConvShapes : q.kernelWidth <= q.inputWidth}}
    \cup UNION {{[fn |-> "he_convolution_optimized", shape |-> s,
                  image |-> d[1],
                  rawKernel |-> Kernel4(d[2], s.outputChannels,
                                        s.inputChannels, 3),
                  biasVec |-> BiasVec(s.outputChannels)] :
                    d \in ConvData(s)} :
                s \in {q \in ConvShapes : q.kernelWidth = 3}}
    \cup UNION {{[fn |-> "he_convolution_optimized", shape |-> s,
                  image |-> x, rawKernel |-> IdentityKernel(s.inputChannels),
                  biasVec |-> ZeroVec(s.outputChannels)] :
                    x \in Images(s.inputChannels * s.inputWidth
                                 * s.inputWidth)} :
                s \in {q \in ConvShapes :
                          /\ q.kernelWidth = 3
                          /\ q.inputChannels = q.outputChannels}}

InitConv == call \in ConvCalls /\ ret = NoValue /\ DriverIdle

\* the ciphertext he_convolution leaves in the caller's variable: the loop
\* over the kernel rows assigns each rotation by inputWidth to the reference
\* parameter
RECURSIVE he_convolution_encryptedInput(_, _, _)
he_convolution_encryptedInput(encryptedInput, inputWidth, kernelWidth) ==
    IF kernelWidth <= 1 THEN encryptedInput
    ELSE he_convolution_encryptedInput(
             EvalRotate(encryptedInput, inputWidth), inputWidth,
             kernelWidth - 1)

\* lenet5(): encode_kernel per output channel, encode_bais_input at the
\* output tile size, he_convolution with padding 0 and stride 1
RunConvolution ==
    /\ call.fn = "he_convolution" /\ pc = 0
    /\ LET s == call.shape
           outW == s.inputWidth - s.kernelWidth + 1
           kernelData ==
               Tup([o \in 1..s.outputChannels |->
                       encode_kernel(call.rawKernel[o],
                                     s.inputWidth * s.inputWidth)],
                   s.outputChannels)
           biasEncoded == encode_bais_input(call.biasVec, outW * outW)
       IN  ret' = [value |->
                     he_convolution(Plain(encode_input(call.image)),
                                    kernelData, biasEncoded, s.inputWidth,
                                    s.inputChannels, s.outputChannels,
                                    s.kernelWidth, 0, 1),
                   encryptedInput |->
                     he_convolution_encryptedInput(
                         Plain(encode_input(call.image)), s.inputWidth,
                         s.kernelWidth)]
    /\ opLog' = Append(opLog, Entry(Step("he_convolution", "", "", 0, <<>>)))
    /\ pc' = 1
    /\ UNCHANGED <<call, ri, loaded, group, lastRot, failed, image, skRead,
                   decrypted>>

\* convolution_block: encode_kernel_optimized per output channel,
\* encode_bais_input at the tile size, he_convolution_optimized
RunConvolutionOptimized ==
    /\ call.fn = "he_convolution_optimized" /\ pc = 0
    /\ LET s == call.shape
           widthSq == s.inputWidth * s.inputWidth
           kernelData ==
               Tup([o \in 1..s.outputChannels |->
                       encode_kernel_optimized(call.rawKernel[o], widthSq)],
                   s.outputChannels)
           biasDataEncoded == encode_bais_input(call.biasVec, widthSq)
       IN  ret' = [value |->
                     he_convolution_optimized(
                         Plain(encode_input(call.image)), kernelData,
                         biasDataEncoded, s.inputWidth, s.inputChannels,
                         s.outputChannels, 1),
                   encryptedInput |-> Plain(encode_input(call.image))]
    /\ opLog' = Append(opLog, Entry(Step("he_convolution_optimized", "", "",
                                         0, <<>>)))
    /\ pc' = 1
    /\ UNCHANGED <<call, ri, loaded, group, lastRot, failed, image, skRead,
                   decrypted>>

\* the driver's next statement takes the returned ciphertext as its input
ConvNextLayer ==
    /\ pc = 1
    /\ opLog' = Append(opLog, Entry(Step("he_relu", "", "", 0, <<>>)))
    /\ pc' = 2
    /\ UNCHANGED <<call, ret, ri, loaded, group, lastRot, failed, image,
                   skRead, decrypted>>

NextConv == RunConvolution \/ RunConvolutionOptimized \/ ConvNextLayer
SpecConv == InitConv /\ [][NextConv]_vars

RECURSIVE SumSeq(_)
SumSeq(s) == IF s = <<>> THEN 0 ELSE Head(s) + SumSeq(Tail(s))

\* bias[o] + sum over i, a, b of w[o][i][a][b] * x[i][r + a][c + b]
ValidConvolution(c, o, row, col) ==
    LET s == c.shape
        W == s.inputWidth
        k == s.kernelWidth
    IN  c.biasVec[o + 1]
        + SumSeq(Tup([t \in 1..(s.inputChannels * k * k) |->
                        LET i == (t - 1) \div (k * k)
                            a == ((t - 1) % (k * k)) \div k
                            b == (t - 1) % k
                        IN  c.rawKernel[o + 1][i + 1][a + 1][b + 1]
                            * c.image[i * W * W + (row + a) * W + (col + b)
                                      + 1]],
                     s.inputChannels * k * k))

\* C14: he_convolution with padding 0 and stride 1 returns, at slot
\* o * Wout^2 + r * Wout + c, bias[o] plus the sum over input channels and
\* kernel positions of w[o][i][a][b] * x[i][r + a][c + b].
C14_GenericConvolution ==
    (pc >= 1 /\ call.fn = "he_convolution") =>
        LET Wout == call.shape.inputWidth - call.shape.kernelWidth + 1
        IN  \A o \in 0..(call.shape.outputChannels - 1) :
              \A row \in 0..(Wout - 1) : \A col \in 0..(Wout - 1) :
                ret.value.slots[o * Wout * Wout + row * Wout + col + 1]
                    = ValidConvolution(call, o, row, col)

\* a 2-channel 3x3 image through two 2x2 kernels has been convolved
C14_Witness ==
    /\ pc = 1 /\ call.fn = "he_convolution"
    /\ call.shape = [inputWidth |-> 3, kernelWidth |-> 2,
                     inputChannels |-> 2, outputChannels |-> 2]
    /\ call.image = RampVec(18)
    /\ ret.value.slots[4 + 2 + 2] > call.biasVec[2]

\* x[i][r][c], zero outside the tile
Padded(c, i, row, col) ==
    LET W == c.shape.inputWidth
    IN  IF row < 0 \/ row >= W \/ col < 0 \/ col >= W THEN 0
        ELSE c.image[i * W * W + row * W + col + 1]

\* bias[o] + sum over i, a, b of w[o][i][a][b] * x[i][r + a - 1][c + b - 1]
SameConvolution(c, o, row, col) ==
    c.biasVec[o + 1]
    + SumSeq(Tup([t \in 1..(c.shape.inputChannels * 9) |->
                    LET i == (t - 1) \div 9
                        a == ((t - 1) % 9) \div 3
                        b == (t - 1) % 3
                    IN  c.rawKernel[o + 1][i + 1][a + 1][b + 1]
                        * Padded(c, i, row + a - 1, col + b - 1)],
                 c.shape.inputChannels * 9))

\* C15: he_convolution_optimized with stride 1 on kernels encoded by
\* encode_kernel_optimized returns, at slot o * W^2 + r * W + c, bias[o]
\* plus the sum of w[o][i][a][b] * x[i][r + a - 1][c + b - 1] with x zero
\* outside its tile; with the identity kernel and no bias it returns its
\* input.
C15_OptimizedConvolution ==
    (pc >= 1 /\ call.fn = "he_convolution_optimized") =>
        LET W == call.shape.inputWidth
        IN  /\ \A o \in 0..(call.shape.outputChannels - 1) :
                 \A row \in 0..(W - 1) : \A col \in 0..(W - 1) :
                    ret.value.slots[o * W * W + row * W + col + 1]
                        = SameConvolution(call, o, row, col)
            /\ (/\ call.shape.inputChannels = call.shape.outputChannels
                /\ call.rawKernel = IdentityKernel(call.shape.inputChannels)
                /\ call.biasVec = ZeroVec(call.shape.outputChannels))
               => ret.value.slots = encode_input(call.image)

\* a 2-channel 3x3 image has been convolved with two 3x3 kernels and a
\* border output has lost the terms outside the tile
C15_Witness ==
    /\ pc = 1 /\ call.fn = "he_convolution_optimized"
    /\ call.shape = [inputWidth |-> 3, kernelWidth |-> 3,
                     inputChannels |-> 2, outputChannels |-> 2]
    /\ call.image = RampVec(18)
    /\ call.rawKernel = Kernel4(UnitVec(36, 1), 2, 2, 3)
    /\ ret.value.slots[1] = call.biasVec[1]
    /\ ret.value.slots[5] = call.biasVec[1] + 1

(***************************************************************************)
(* Fully connected layers on the slots: lenet5() encodes each weight row   *)
(* and the bias with encode_input and calls he_linear.                     *)
(***************************************************************************)
MaxFCIn     == 4      \* input features 1 .. MaxFCIn
MaxFCRows   == 3      \* weight rows 1 .. MaxFCRows
MaxFCRotPos == 3      \* rotatePositions 1 .. MaxFCRotPos

Matrix(flat, rows, cols) ==
    Tup([i \in 1..rows |->
            Tup([j \in 1..cols |-> flat[(i - 1) * cols + j]], cols)], rows)

FCData(rows, cols) ==
    {<<x, Matrix(RampVec(rows * cols), rows, cols)>> : x \in Images(cols)}
    \cup {<<RampVec(cols), Matrix(w, rows, cols)>> :
            w \in Images(rows * cols)}

\* input [1, 2, 3, 4], weights [[1, 0, 0, 0], [0, 1, 0, 0]], bias [10, 20]
FCScenario(rotatePositions) ==
    [fn |-> "he_linear", rawInput |-> <<1, 2, 3, 4>>,
     rawWeights |-> <<<<1, 0, 0, 0>>, <<0, 1, 0, 0>>>>,
     rawBias |-> <<10, 20>>,
     encryptedInput |-> Plain(encode_input(<<1, 2, 3, 4>>)),
     weightMatrix |-> <<encode_input(<<1, 0, 0, 0>>),
                        encode_input(<<0, 1, 0, 0>>)>>,
     biasInput |-> encode_input(<<10, 20>>),
     inputSize |-> 4, outputSize |-> 2, rotatePositions |-> rotatePositions]

FCCalls ==
    UNION {{[fn |-> f[1], rawInput |-> d[1], rawWeights |-> d[2],
             rawBias |-> BiasVec(s[2]),
             encryptedInput |-> Plain(encode_input(d[1])),
             weightMatrix |-> Tup([i \in 1..s[2] |-> encode_input(d[2][i])],
                                  s[2]),
             biasInput |-> encode_input(BiasVec(s[2])),
             inputSize |-> s[1], outputSize |-> s[3],
             rotatePositions |-> f[2]] :
                <<d, f>> \in FCData(s[2], s[1])
                    \X ({<<"he_linear", rp>> : rp \in 1..MaxFCRotPos}
                        \cup {<<"he_linear_optimized", 0>>})} :
           s \in {q \in (1..MaxFCIn) \X (1..MaxFCRows) \X (1..MaxFCRows) :
                     q[3] <= q[2]}}
    \cup {FCScenario(rp) : rp \in 1..MaxFCRotPos}

InitFC == call \in FCCalls /\ ret = NoValue /\ DriverIdle

SpecFC == InitFC /\ [][NextLinear]_vars

\* bias[i] + sum over j of W[i][j] * x[j]
DotProduct(c, i) ==
    c.rawBias[i + 1]
    + SumSeq(Tup([j \in 1..c.inputSize |->
                    c.rawWeights[i + 1][j] * c.rawInput[j]], c.inputSize))

\* C16: for outputSize up to the number of weight rows and any
\* rotatePositions >= 1, slot i of he_linear's result is bias[i] plus the
\* dot product of weight row i with the input, for every i < outputSize.
C16_FullyConnected ==
    (pc >= 1 /\ call.fn = "he_linear") =>
        \A i \in 0..(call.outputSize - 1) :
            ret.value.slots[i + 1] = DotProduct(call, i)

\* three outputs merged two at a time: the third sits alone in its group
C16_Witness ==
    /\ pc = 1 /\ call.fn = "he_linear"
    /\ call.outputSize = 3 /\ call.rotatePositions = 2
    /\ call.inputSize = 3 /\ call.rawInput = RampVec(3)
    /\ ret.value.slots[3] = 10 * 3 + 7 * 1 + 8 * 2 + 9 * 3


(***************************************************************************)
(* Pooling on the slots.  The scale masks hold 1 / scale_value, so the     *)
(* images here are multiples of scale_value and a slot divided by it is    *)
(* exact.                                                                  *)
(***************************************************************************)
MaxPoolLogW     == 3      \* pooled widths 4 .. 2^MaxPoolLogW
MaxPoolChannels == 2
MaxGlobalLogW   == 2      \* globally pooled widths 1 .. 2^MaxGlobalLogW
MaxGlobalChannels == 3
MaxGlobalRotPos == 3

\* EvalMult(ct, MakeCKKSPackedPlaintext(generate_scale_mask(scale_value,
\* vector_size))): the first vector_size slots times 1 / scale_value
EvalMultScaleMask(ct, scale_value, vector_size) ==
    [slots |-> Tup([i \in 1..Len(ct.slots) |->
                       IF i <= vector_size THEN ct.slots[i] \div scale_value
                       ELSE 0], Len(ct.slots)),
     depth |-> ct.depth + 1]

\* the channels one after the other through downsample, channel i moved to
\* i * outputSize
PoolChannels(sum_cipher, inputWidth, inputChannels, stride, outputSize) ==
    EvalAddMany(
        Tup([c \in 1..inputChannels |->
                IF c = 1 THEN downsample(sum_cipher, inputWidth, stride)
                ELSE EvalRotate(
                        downsample(EvalRotate(sum_cipher,
                                       (c - 1) * inputWidth * inputWidth),
                                   inputWidth, stride),
                        0 - ((c - 1) * outputSize))],
            inputChannels))

\* the branch for inputWidth <= 2: the channels after the first, merged
PoolSmall(sum_cipher, inputSize, inputChannels) ==
    EvalMerge(Tup([i \in 1..(inputChannels - 1) |->
                      EvalRotate(sum_cipher, i * inputSize)],
                  inputChannels - 1), Len(sum_cipher.slots))

he_avgpool(encryptedInput, inputWidth, inputChannels, kernelWidth, stride) ==
    LET outputWidth == inputWidth \div stride
        kernelSq    == kernelWidth * kernelWidth
        inputSize   == inputWidth * inputWidth
        outputSize  == outputWidth * outputWidth
        rotated_ciphertexts ==
            Tup([k \in 1..kernelSq |->
                    LET i == (k - 1) \div kernelWidth
                        j == (k - 1) % kernelWidth
                        row == EvalRotate(encryptedInput, i * inputWidth)
                    IN  IF j = 0 THEN row ELSE EvalRotate(row, j)],
                kernelSq)
        sum_cipher == EvalAddMany(rotated_ciphertexts)
    IN  IF inputWidth <= 2
        THEN PoolSmall(sum_cipher, inputSize, inputChannels)
        ELSE PoolChannels(EvalMultScaleMask(sum_cipher, kernelSq,
                                            inputChannels * inputSize),
                          inputWidth, inputChannels, stride, outputSize)

\* a kernel that leaves every channel's result at slot 0
he_avgpool_optimzed_unplaced(encryptedInput, inputWidth, inputChannels, kernelWidth, stride) ==
    PoolChannels(EvalMultScaleMask(
                     EvalAddMany(<<encryptedInput,
                                   EvalRotate(encryptedInput, 1),
                                   EvalRotate(encryptedInput, inputWidth),
                                   EvalRotate(EvalRotate(encryptedInput,
                                                         inputWidth), 1)>>),
                     kernelWidth * kernelWidth,
                     inputChannels * inputWidth * inputWidth),
                 inputWidth, inputChannels, stride, 0)

he_avgpool_optimzed(encryptedInput, inputWidth, inputChannels, kernelWidth, stride) ==
    LET kernelSq    == kernelWidth * kernelWidth
        inputSize   == inputWidth * inputWidth
        outputWidth == inputWidth \div stride
        outputSize  == outputWidth * outputWidth
        rotated_ciphertexts ==
            <<encryptedInput, EvalRotate(encryptedInput, 1),
              EvalRotate(encryptedInput, inputWidth),
              EvalRotate(EvalRotate(encryptedInput, inputWidth), 1)>>
        sum_cipher ==
            EvalMultScaleMask(EvalAddMany(rotated_ciphertexts), kernelSq,
                              inputChannels * inputSize)
    IN  IF inputWidth <= 2
        THEN PoolSmall(sum_cipher, inputSize, inputChannels)
        ELSE PoolChannels(sum_cipher, inputWidth, inputChannels, stride,
                          outputSize)

\* a kernel that sums the first tile for every channel
he_globalavgpool_first_tile(encryptedInput, inputWidth, outputChannels, kernelWidth, rotatePositions) ==
    LET width_sq == inputWidth * inputWidth
        n == Len(encryptedInput.slots)
        groups == (outputChannels + rotatePositions - 1) \div rotatePositions
        merged(g) ==
            LET first == g * rotatePositions
                last  == IF first + rotatePositions < outputChannels
                         THEN first + rotatePositions - 1
                         ELSE outputChannels - 1
                m == EvalMerge(Tup([k \in 1..(last - first + 1) |->
                                       EvalSum(encryptedInput, width_sq)],
                                   last - first + 1), n)
            IN  IF first > 0 THEN EvalRotate(m, 0 - first) ELSE m
    IN  EvalMultScaleMask(
            EvalAddMany(Tup([g \in 1..groups |-> merged(g - 1)], groups)),
            width_sq, outputChannels)

he_globalavgpool(encryptedInput, inputWidth, outputChannels, kernelWidth, rotatePositions) ==
    LET width_sq == inputWidth * inputWidth
        n == Len(encryptedInput.slots)
        groups == (outputChannels + rotatePositions - 1) \div rotatePositions
        merged(g) ==
            LET first == g * rotatePositions
                last  == IF first + rotatePositions < outputChannels
                         THEN first + rotatePositions - 1
                         ELSE outputChannels - 1
                m == EvalMerge(
                        Tup([k \in 1..(last - first + 1) |->
                                EvalSum(EvalRotate(encryptedInput,
                                            (first + k - 1) * width_sq),
                                        width_sq)],
                            last - first + 1), n)
            IN  IF first > 0 THEN EvalRotate(m, 0 - first) ELSE m
    IN  EvalMultScaleMask(
            EvalAddMany(Tup([g \in 1..groups |-> merged(g - 1)], groups)),
            width_sq, outputChannels)

\* images in multiples of q: q at one slot, and q, 2q, 3q, ...
ScaledImages(n, q) ==
    {Tup([i \in 1..n |-> IF i = k THEN q ELSE 0], n) : k \in 1..n}
    \cup {Tup([i \in 1..n |-> q * i], n)}

\* the 4x4 image 0 .. 15 in quarters
PoolScenarioImage == Tup([i \in 1..16 |-> 4 * (i - 1)], 16)

Encrypted(vec) ==
    [slots |-> MakeCKKSPackedPlaintext(vec, nextPowerOf2(Len(vec))),
     depth |-> 0]

PoolCalls ==
    UNION {{[fn |-> f, inputWidth |-> Pow2(s[1]), channels |-> s[2],
             image |-> x, rotatePositions |-> 0] :
                <<f, x>> \in {"he_avgpool", "he_avgpool_optimzed"}
                    \X (ScaledImages(s[2] * Pow2(s[1]) * Pow2(s[1]), 4)
                        \cup (IF s[1] = 2 /\ s[2] = 1
                              THEN {PoolScenarioImage} ELSE {}))} :
           s \in (2..MaxPoolLogW) \X (1..MaxPoolChannels)}
    \cup
    UNION {{[fn |-> "he_globalavgpool", inputWidth |-> Pow2(s[1]),
             channels |-> s[2], image |-> x, rotatePositions |-> s[3]] :
                x \in ScaledImages(s[2] * Pow2(s[1]) * Pow2(s[1]),
                                   Pow2(s[1]) * Pow2(s[1]))} :
           s \in (0..MaxGlobalLogW) \X (1..MaxGlobalChannels)
                 \X (1..MaxGlobalRotPos)}

\* EvalMerge of an empty vector reads its first element: the backend's
\* exception, or a read outside the vector
EmptyMerge == {[thrown |-> "EvalMerge"], [undefined |-> "SIGSEGV"]}

InitPool == call \in PoolCalls /\ ret = NoValue /\ DriverIdle

\* lenet5(): convData = he_avgpool_optimzed(convData, imgWidth, channels,
\* poolSize, poolSize)
RunAvgPoolOptimized ==
    /\ call.fn = "he_avgpool_optimzed" /\ pc = 0
    /\ IF call.inputWidth <= 2 /\ call.channels = 1
       THEN ret' \in EmptyMerge
       ELSE ret' = [value |-> he_avgpool_optimzed(Encrypted(call.image),
                                                  call.inputWidth,
                                                  call.channels, 2, 2),
                    encryptedInput |-> Encrypted(call.image)]
    /\ opLog' = Append(opLog,
                       Entry(Step("he_avgpool_optimzed", "", "", 0, <<>>)))
    /\ pc' = 1
    /\ UNCHANGED <<call, ri, loaded, group, lastRot, failed, image, skRead,
                   decrypted>>

RunAvgPool ==
    /\ call.fn = "he_avgpool" /\ pc = 0
    /\ IF call.inputWidth <= 2 /\ call.channels = 1
       THEN ret' \in EmptyMerge
       ELSE ret' = [value |-> he_avgpool(Encrypted(call.image),
                                         call.inputWidth, call.channels, 2,
                                         2)]
    /\ opLog' = Append(opLog, Entry(Step("he_avgpool", "", "", 0, <<>>)))
    /\ pc' = 1
    /\ UNCHANGED <<call, ri, loaded, group, lastRot, failed, image, skRead,
                   decrypted>>

\* the ciphertext he_globalavgpool leaves in the caller's variable: the loop
\* over the channels assigns each rotation by width_sq to the reference
\* parameter
RECURSIVE he_globalavgpool_encryptedInput(_, _, _)
he_globalavgpool_encryptedInput(encryptedInput, inputWidth, outputChannels) ==
    IF outputChannels <= 1 THEN encryptedInput
    ELSE he_globalavgpool_encryptedInput(
             EvalRotate(encryptedInput, inputWidth * inputWidth),
             inputWidth, outputChannels - 1)

\* resnet20(): he_globalavgpool(convData, dataWidth, channels, avgpoolSize,
\* rotPositions)
RunGlobalAvgPool ==
    /\ call.fn = "he_globalavgpool" /\ pc = 0
    /\ ret' = [value |-> he_globalavgpool(Encrypted(call.image),
                                          call.inputWidth, call.channels,
                                          call.inputWidth,
                                          call.rotatePositions),
               encryptedInput |->
                   he_globalavgpool_encryptedInput(Encrypted(call.image),
                                                   call.inputWidth,
                                                   call.channels)]
    /\ opLog' = Append(opLog,
                       Entry(Step("he_globalavgpool", "", "", 0, <<>>)))
    /\ pc' = 1
    /\ UNCHANGED <<call, ri, loaded, group, lastRot, failed, image, skRead,
                   decrypted>>

NextPool == RunAvgPoolOptimized \/ RunAvgPool \/ RunGlobalAvgPool
SpecPool == InitPool /\ [][NextPool]_vars

\* x[c][row][col] of the call's image
Pixel(c, ch, row, col) ==
    c.image[ch * c.inputWidth * c.inputWidth + row * c.inputWidth + col + 1]

\* C17: for a power-of-two width W >= 4 and any number of channels,
\* he_avgpool_optimzed, and he_avgpool with kernel and stride 2, return at
\* slot c * (W/2)^2 + r * (W/2) + j the mean of the 2x2 window at (2r, 2j)
\* of channel c.
C17_AveragePooling ==
    (pc = 1 /\ call.fn \in {"he_avgpool", "he_avgpool_optimzed"}) =>
        LET H == call.inputWidth \div 2
        IN  \A ch \in 0..(call.channels - 1) :
              \A r \in 0..(H - 1) : \A j \in 0..(H - 1) :
                ret.value.slots[ch * H * H + r * H + j + 1]
                    = (Pixel(call, ch, 2 * r, 2 * j)
                       + Pixel(call, ch, 2 * r, 2 * j + 1)
                       + Pixel(call, ch, 2 * r + 1, 2 * j)
                       + Pixel(call, ch, 2 * r + 1, 2 * j + 1)) \div 4

\* the 4x4 image 0 .. 15 has been pooled to 2.5, 4.5, 10.5, 12.5 (in
\* quarters: 10, 18, 42, 50)
C17_Witness ==
    /\ pc = 1 /\ call.fn = "he_avgpool_optimzed"
    /\ call.image = PoolScenarioImage
    /\ SubSeq(ret.value.slots, 1, 4) = <<10, 18, 42, 50>>

\* C18: for any number of channels, a power-of-two tile size W^2 and any
\* rotatePositions >= 1, he_globalavgpool returns at slot c the mean of the
\* W^2 slots of channel c.
C18_GlobalAveragePooling ==
    (pc = 1 /\ call.fn = "he_globalavgpool") =>
        LET width_sq == call.inputWidth * call.inputWidth
        IN  \A ch \in 0..(call.channels - 1) :
                ret.value.slots[ch + 1]
                    = SumSeq(SubSeq(call.image, ch * width_sq + 1,
                                    (ch + 1) * width_sq)) \div width_sq

\* three 2x2 channels pooled two at a time: the third sits alone in its group
C18_Witness ==
    /\ pc = 1 /\ call.fn = "he_globalavgpool"
    /\ call.inputWidth = 2 /\ call.channels = 3 /\ call.rotatePositions = 2
    /\ call.image = Tup([i \in 1..12 |-> 4 * i], 12)
    /\ ret.value.slots[3] = 9 + 10 + 11 + 12

(***************************************************************************)
(* The stride-2 downsample, every slot of its result.                      *)
(***************************************************************************)
\* C20: for every power-of-two W >= 4 and any input contents, also non-zero
\* slots outside the first tile, downsample(input, W, 2) returns slot
\* r*(W/2) + j equal to input slot 2r*W + 2j for r, j < W/2, and every other
\* slot zero.
C20_StrideTwoExact ==
    (call.fn = "downsample" /\ ret # NoValue /\ call.stride = 2
        /\ call.inputWidth >= 4) =>
        /\ Subsampled(ret, call.input, call.inputWidth, 2)
        /\ \A i \in 1..Len(ret.slots) :
              i > (call.inputWidth \div 2) * (call.inputWidth \div 2)
                  => ret.slots[i] = 0

\* the 4x4 image 0 .. 15 followed by the non-zero slots 16 .. 31 has become
\* 0, 2, 8, 10 and zeros
C20_Witness ==
    /\ call.fn = "downsample" /\ call.inputWidth = 4 /\ call.stride = 2
    /\ call.input = RampCt(32)
    /\ ret # NoValue
    /\ ret.slots = <<0, 2, 8, 10>> \o Tup([i \in 1..28 |-> 0], 28)

(***************************************************************************)
(* The downsample calls the drivers reach through their kernels.           *)
(***************************************************************************)
KernelCall(op, layer, inputWidth, inputChannels, outputChannels, stride) ==
    [op |-> op, layer |-> layer, inputWidth |-> inputWidth,
     inputChannels |-> inputChannels, outputChannels |-> outputChannels,
     stride |-> stride]

\* lenet5(): the convolutions (stride 1 by default) and the poolings
lenet5_kernel_calls ==
    LET poolSize == 2
    IN  <<KernelCall("he_convolution", "Conv1", lenet5_imgWidth(0),
                     lenet5_channels(0), lenet5_channels(1), 1),
          KernelCall("he_avgpool_optimzed", "AvgPool1", lenet5_imgWidth(1),
                     lenet5_channels(1), lenet5_channels(1), poolSize),
          KernelCall("he_convolution", "Conv2", lenet5_imgWidth(2),
                     lenet5_channels(1), lenet5_channels(2), 1),
          KernelCall("he_avgpool_optimzed", "AvgPool2", lenet5_imgWidth(3),
                     lenet5_channels(2), lenet5_channels(2), poolSize)>>

\* resnet_block(): the fused kernel or the first convolution, then the
\* second convolution on the width the block leaves
resnet_block_kernel_calls(layer, dataWidth, inputChannels, outputChannels, shortcutConv) ==
    LET striding == 1
        widthOut == IF shortcutConv THEN dataWidth \div 2 ELSE dataWidth
    IN  <<IF shortcutConv
          THEN KernelCall("he_convolution_and_shortcut_optimized", layer,
                          dataWidth, inputChannels, outputChannels, 2)
          ELSE KernelCall("he_convolution_optimized", layer \o "_conv1",
                          dataWidth, inputChannels, outputChannels, striding),
          KernelCall("he_convolution_optimized", layer \o "_conv2", widthOut,
                     outputChannels, outputChannels, striding)>>

resnet20_kernel_calls ==
    LET img_cols == 32
        img_depth == 3
        striding == 1
        c0 == resnet20_channelValues(0)
        c1 == resnet20_channelValues(1)
        c2 == resnet20_channelValues(2)
    IN  <<KernelCall("he_convolution_optimized", "layer0_conv1", img_cols,
                     img_depth, c0, striding)>>
        \o resnet_block_kernel_calls("layer1_block1", img_cols, c0, c0, FALSE)
        \o resnet_block_kernel_calls("layer1_block2", img_cols, c0, c0, FALSE)
        \o resnet_block_kernel_calls("layer1_block3", img_cols, c0, c0, FALSE)
        \o resnet_block_kernel_calls("layer2_block1", img_cols, c0, c1, TRUE)
        \o resnet_block_kernel_calls("layer2_block2", img_cols \div 2, c1, c1,
                                     FALSE)
        \o resnet_block_kernel_calls("layer2_block3", img_cols \div 2, c1, c1,
                                     FALSE)
        \o resnet_block_kernel_calls("layer3_block1", img_cols \div 2, c1, c2,
                                     TRUE)
        \o resnet_block_kernel_calls("layer3_block2", img_cols \div 4, c2, c2,
                                     FALSE)
        \o resnet_block_kernel_calls("layer3_block3", img_cols \div 4, c2, c2,
                                     FALSE)
        \o <<KernelCall("he_globalavgpool", "", img_cols \div 4, c2, c2, 1)>>

KernelProgram(driver) ==
    IF driver = "lenet5" THEN lenet5_kernel_calls ELSE resnet20_kernel_calls

\* the number of calls of downsample one kernel call makes: one per output
\* channel of a strided convolution, two per output channel of the fused
\* kernel, one per channel of a pooling wider than 2
downsample_calls(k) ==
    IF k.op \in {"he_convolution", "he_convolution_optimized"}
    THEN IF k.stride # 1 THEN k.outputChannels ELSE 0
    ELSE IF k.op = "he_convolution_and_shortcut_optimized"
    THEN 2 * k.outputChannels
    ELSE IF k.op = "he_avgpool_optimzed"
    THEN IF k.inputWidth <= 2 THEN 0 ELSE k.inputChannels
    ELSE 0

InitStride ==
    /\ call \in {[driver |-> "lenet5"], [driver |-> "resnet20"]}
    /\ ret = NoValue /\ DriverIdle

\* the driver calls its next kernel once the kernel before it has returned
CallKernel ==
    /\ pc < Len(KernelProgram(call.driver))
    /\ pc > 0 => ri = downsample_calls(KernelProgram(call.driver)[pc])
    /\ pc' = pc + 1
    /\ ri' = 0
    /\ opLog' = Append(opLog, KernelProgram(call.driver)[pc + 1])
    /\ UNCHANGED <<call, ret, loaded, group, lastRot, failed, image, skRead,
                   decrypted>>

\* the running kernel calls downsample(cipher, inputWidth, stride)
CallDownsample ==
    /\ pc > 0
    /\ ri < downsample_calls(KernelProgram(call.driver)[pc])
    /\ ri' = ri + 1
    /\ opLog' = Append(opLog,
                       [KernelProgram(call.driver)[pc]
                            EXCEPT !.op = "downsample"])
    /\ UNCHANGED <<call, ret, pc, loaded, group, lastRot, failed, image,
                   skRead, decrypted>>

NextStride == CallKernel \/ CallDownsample
SpecStride == InitStride /\ [][NextStride]_vars

IsPowerOfTwo(w) == w >= 1 /\ Pow2(CeilLog2(w)) = w

\* C19: every call of downsample reached from the LeNet-5 and ResNet-20
\* drivers, through their pooling and fused-convolution kernels, is made with
\* a stride that divides W and with W a power of two.
C19_DownsamplePrecondition ==
    \A i \in 1..Len(opLog) :
        opLog[i].op = "downsample" =>
            /\ opLog[i].inputWidth % opLog[i].stride = 0
            /\ IsPowerOfTwo(opLog[i].inputWidth)

(***************************************************************************)
(* FHEONANNController::downsample_with_multiple_channels                   *)
(***************************************************************************)
MaxDownLogW     == 3      \* widths 4 .. 2^MaxDownLogW of the channel tiles
MaxDownChannels == 2

\* mask.insert(mask.end(), baseMask.begin(), baseMask.end()), numChannels
\* times
RepeatMask(baseMask, numChannels) ==
    Tup([idx \in 1..(Len(baseMask) * numChannels) |->
            baseMask[((idx - 1) % Len(baseMask)) + 1]],
        Len(baseMask) * numChannels)

generate_zero_mask_channels(inputSize, numChannels) ==
    Tup([idx \in 1..(inputSize * numChannels) |-> 0], inputSize * numChannels)

first_mask_with_channels(inputWidth, inputSize, stride, numChannels) ==
    RepeatMask(Tup([idx \in 1..inputSize |->
                       LET i == (idx - 1) \div inputWidth
                           j == (idx - 1) % inputWidth
                       IN  IF i < inputWidth /\ j % stride = 0
                              /\ i % stride = 0
                           THEN 1 ELSE 0], inputSize), numChannels)

generate_binary_mask_with_channels(pattern, inputSize, numChannels) ==
    RepeatMask(Tup([idx \in 1..inputSize |->
                       IF ((idx - 1) % (2 * pattern)) < pattern
                       THEN 1 ELSE 0], inputSize), numChannels)

generate_row_mask_with_channels(row, width, inputSize, numChannels) ==
    RepeatMask(Tup([idx \in 1..Max(inputSize, (row + 1) * width) |->
                       IF idx > row * width /\ idx <= (row + 1) * width
                       THEN 1 ELSE 0],
                   Max(inputSize, (row + 1) * width)), numChannels)

\* a mask that selects the first block for every channel
generate_channel_mask_first_block(channel, outputSize, numChannels) ==
    Tup([idx \in 1..(outputSize * numChannels) |->
            IF idx <= outputSize THEN 1 ELSE 0], outputSize * numChannels)

generate_channel_mask_with_zeros(channel, outputSize, numChannels) ==
    Tup([idx \in 1..(outputSize * numChannels) |->
            IF idx > channel * outputSize /\ idx <= (channel + 1) * outputSize
            THEN 1 ELSE 0], outputSize * numChannels)

\* Step 1, the loop  for (s = 1; s < log2(outputWidth); s++)
RECURSIVE ChannelsDoubling(_, _, _, _, _)
ChannelsDoubling(result, s, iters, inputSize, numChannels) ==
    IF s > iters THEN result
    ELSE ChannelsDoubling(
            EvalMult(EvalAdd(result, EvalRotate(result, Pow2(s - 1))),
                     MakeCKKSPackedPlaintext(
                         generate_binary_mask_with_channels(Pow2(s), inputSize,
                                                            numChannels),
                         Len(result.slots))),
            s + 1, iters, inputSize, numChannels)

\* Step 2, the loop over the output rows
RECURSIVE ChannelsRows(_, _, _, _, _, _, _)
ChannelsRows(result, acc, row, outputWidth, inputWidth, stride, numChannels) ==
    IF row >= outputWidth THEN acc
    ELSE LET masked == EvalMult(result,
                          MakeCKKSPackedPlaintext(
                              generate_row_mask_with_channels(
                                  row, outputWidth, inputWidth * inputWidth,
                                  numChannels),
                              Len(result.slots)))
             res2 == IF row < outputWidth - 1
                     THEN EvalRotate(result,
                                     stride * inputWidth - outputWidth)
                     ELSE result
         IN  ChannelsRows(res2, EvalAdd(acc, masked), row + 1, outputWidth,
                          inputWidth, stride, numChannels)

\* Step 3, the loop over the channels
RECURSIVE ChannelsCompact(_, _, _, _, _, _)
ChannelsCompact(downsampledrows, acc, ch, numChannels, inputSize, outputSize) ==
    IF ch >= numChannels THEN acc
    ELSE LET masked == EvalMult(downsampledrows,
                          MakeCKKSPackedPlaintext(
                              generate_channel_mask_with_zeros(
                                  ch, outputSize, numChannels),
                              Len(downsampledrows.slots)))
             rows2 == IF ch < numChannels - 1
                      THEN EvalRotate(downsampledrows, inputSize - outputSize)
                      ELSE downsampledrows
         IN  ChannelsCompact(rows2, EvalAdd(acc, masked), ch + 1, numChannels,
                             inputSize, outputSize)

downsample_with_multiple_channels(input, inputWidth, stride, numChannels) ==
    LET n           == Len(input.slots)
        inputSize   == inputWidth * inputWidth
        outputWidth == inputWidth \div stride
        outputSize  == outputWidth * outputWidth
        encryptedzeros ==
            EvalMult(input, MakeCKKSPackedPlaintext(
                                generate_zero_mask_channels(inputSize,
                                                            numChannels), n))
        r0 == EvalMult(input, MakeCKKSPackedPlaintext(
                                  first_mask_with_channels(
                                      inputWidth, inputSize, stride,
                                      numChannels), n))
        r1 == ChannelsDoubling(r0, 1, Log2Iters(outputWidth), inputSize,
                               numChannels)
        r2 == EvalAdd(r1, EvalRotate(r1, Pow2Log2Minus1(outputWidth)))
        downsampledrows ==
            ChannelsRows(r2, encryptedzeros, 0, outputWidth, inputWidth,
                         stride, numChannels)
    IN  ChannelsCompact(downsampledrows, encryptedzeros, 0, numChannels,
                        inputSize, outputSize)

\* the channel tiles followed by one more tile of slots the call does not
\* own; one non-zero slot anywhere, or the ramp 0, 1, 2, ...
ChannelCalls ==
    UNION {{[fn |-> "downsample_with_multiple_channels", input |-> ct,
             inputWidth |-> Pow2(s[1]), stride |-> 2, numChannels |-> s[2]] :
                ct \in InputCts((s[2] + 1) * Pow2(s[1]) * Pow2(s[1]))} :
           s \in (2..MaxDownLogW) \X (1..MaxDownChannels)}

InitChannels == call \in ChannelCalls /\ ret = NoValue /\ DriverIdle

\* he_avgpool_optimzed_with_multiple_channels: finalResult =
\* downsample_with_multiple_channels(sum_cipher, inputWidth, stride,
\* inputChannels)
RunDownsampleChannels ==
    /\ call.fn = "downsample_with_multiple_channels"
    /\ ret = NoValue
    /\ ret' = downsample_with_multiple_channels(call.input, call.inputWidth,
                                                call.stride, call.numChannels)
    /\ UNCHANGED <<call, drvVars>>

NextChannels == RunDownsampleChannels
SpecChannels == InitChannels /\ [][NextChannels]_vars

\* C21: for a power-of-two W >= 4 and numChannels >= 1,
\* downsample_with_multiple_channels with stride 2 returns slot
\* c*(W/2)^2 + r*(W/2) + j equal to input slot c*W^2 + 2r*W + 2j for every
\* c < numChannels and r, j < W/2, and every slot at or beyond
\* numChannels*(W/2)^2 zero.
C21_MultiChannelDownsample ==
    (call.fn = "downsample_with_multiple_channels" /\ ret # NoValue) =>
        LET W == call.inputWidth
            H == W \div 2
        IN  /\ \A c \in 0..(call.numChannels - 1) :
                 \A r \in 0..(H - 1) : \A j \in 0..(H - 1) :
                    ret.slots[c * H * H + r * H + j + 1]
                        = call.input.slots[c * W * W + 2 * r * W + 2 * j + 1]
            /\ \A i \in 1..Len(ret.slots) :
                  i > call.numChannels * H * H => ret.slots[i] = 0

\* two 4x4 channels holding 0 .. 31, followed by the slots 32 .. 47, have
\* become 0, 2, 8, 10, 16, 18, 24, 26 and zeros
C21_Witness ==
    /\ call.fn = "downsample_with_multiple_channels"
    /\ call.inputWidth = 4 /\ call.numChannels = 2
    /\ call.input = RampCt(48)
    /\ ret # NoValue
    /\ ret.slots = <<0, 2, 8, 10, 16, 18, 24, 26>>
                       \o Tup([i \in 1..40 |-> 0], 40)

(***************************************************************************)
(* The multiplicative depth of the two downsamplers: depth counts the      *)
(* ciphertext-plaintext multiplies on the longest path to a ciphertext.    *)
(***************************************************************************)
InitCost ==
    /\ call \in DownCalls \cup ChannelCalls
    /\ ret = NoValue /\ DriverIdle

NextCost == RunDownsample \/ RunDownsampleChannels
SpecCost == InitCost /\ [][NextCost]_vars

\* the call has returned and W/s is a power of two, at least 2
DownsampleReturned(fn) ==
    /\ call.fn = fn /\ ret # NoValue
    /\ call.inputWidth \div call.stride >= 2
    /\ IsPowerOfTwo(call.inputWidth \div call.stride)

\* the multiplies on the longest path through the call
LevelCost == ret.depth - call.input.depth

\* C22 as stated: counting one level per ciphertext-plaintext multiply on
\* the longest path, downsample(input, W, s) costs 1 + log2(W/s) + 1 levels
\* and downsample_with_multiple_channels 1 + log2(W/s) + 1 + 1, for every
\* power-of-two W/s >= 2.
C22_LevelCost ==
    /\ DownsampleReturned("downsample") =>
          LevelCost = 1 + CeilLog2(call.inputWidth \div call.stride) + 1
    /\ DownsampleReturned("downsample_with_multiple_channels") =>
          LevelCost = 1 + CeilLog2(call.inputWidth \div call.stride) + 1 + 1

\* C22 amended: the last doubling is an addition of a rotation without a
\* mask, so the doubling phase costs log2(W/s) - 1 levels: downsample costs
\* 1 + (log2(W/s) - 1) + 1 levels and downsample_with_multiple_channels
\* 1 + (log2(W/s) - 1) + 1 + 1, for every power-of-two W/s >= 2.
C22_LevelCostAmended ==
    /\ DownsampleReturned("downsample") =>
          LevelCost
              = 1 + (CeilLog2(call.inputWidth \div call.stride) - 1) + 1
    /\ DownsampleReturned("downsample_with_multiple_channels") =>
          LevelCost
              = 1 + (CeilLog2(call.inputWidth \div call.stride) - 1) + 1 + 1

\* downsample(input, 8, 2) has returned three multiplies below its input
C22_Witness ==
    /\ DownsampleReturned("downsample")
    /\ call.inputWidth = 8 /\ call.stride = 2
    /\ LevelCost = 3

(***************************************************************************)
(* FHEONANNController::he_convolution_advanced                             *)
(***************************************************************************)
\* the arguments he_convolution_advanced hands to he_convolution, under the
\* names of the parameters they arrive at: the call passes inputWidth,
\* kernelWidth, inputChannels, outputChannels, padding, stride
he_convolution_advanced_call(inputWidth, inputChannels, outputChannels, kernelWidth, padding, stride) ==
    [inputWidth |-> inputWidth, inputChannels |-> kernelWidth,
     outputChannels |-> inputChannels, kernelWidth |-> outputChannels,
     paddingLen |-> padding, stride |-> stride]

\* the padded ciphertext: each row of each channel masked, moved to its row
\* of the padded tile, the channels moved to their padded tiles and the whole
\* moved by padd_extra
he_convolution_advanced_padding(encryptedInput, inputWidth, inputChannels, padding) ==
    LET n == Len(encryptedInput.slots)
        padded_width    == inputWidth + (2 * padding)
        padded_width_sq == padded_width * padded_width
        width_sq        == inputWidth * inputWidth
        zeros_elements  == (inputChannels * width_sq) - inputWidth
        in_clean_mask ==
            MakeCKKSPackedPlaintext(
                generate_mixed_mask(inputWidth, zeros_elements), n)
        in_sum_cipher(i) ==
            EvalAddMany(
                Tup([k \in 1..inputWidth |->
                        LET in_clean_cipher ==
                                EvalMult(EvalRotate(encryptedInput,
                                             i * width_sq
                                             + (k - 1) * inputWidth),
                                         in_clean_mask)
                        IN  IF k = 1 THEN in_clean_cipher
                            ELSE EvalRotate(in_clean_cipher,
                                            0 - ((k - 1) * padded_width))],
                    inputWidth))
        channel_vector_ciphers ==
            Tup([c \in 1..inputChannels |->
                    IF c = 1 THEN in_sum_cipher(0)
                    ELSE EvalRotate(in_sum_cipher(c - 1),
                                    0 - ((c - 1) * padded_width_sq))],
                inputChannels)
        padd_extra == (padding * padded_width) + padding
        padded_cipher == EvalAddMany(channel_vector_ciphers)
    IN  IF padd_extra # 0 THEN EvalRotate(padded_cipher, 0 - padd_extra)
        ELSE padded_cipher

\* kernelData[out_ch][k] and the loops of he_convolution stay inside the
\* vectors the caller built
InsideKernelData(kernelData, args) ==
    /\ args.outputChannels <= Len(kernelData)
    /\ args.kernelWidth * args.kernelWidth <= Len(kernelData[1])

he_convolution_advanced(encryptedInput, kernelData, biasInput, inputWidth, inputChannels, outputChannels, kernelWidth, padding, stride) ==
    LET args == he_convolution_advanced_call(inputWidth, inputChannels,
                                             outputChannels, kernelWidth,
                                             padding, stride)
        input == IF padding = 0 THEN encryptedInput
                 ELSE he_convolution_advanced_padding(encryptedInput,
                                                      inputWidth,
                                                      inputChannels, padding)
    IN  he_convolution(input, kernelData, biasInput, args.inputWidth,
                       args.inputChannels, args.outputChannels,
                       args.kernelWidth, args.paddingLen, args.stride)

AdvancedShapes ==
    {s \in [inputWidth : 2..MaxConvW, kernelWidth : 1..Max(3, MaxConvW),
            inputChannels : 1..MaxConvChannels,
            outputChannels : 1..MaxConvChannels,
            padding : 0..MaxConvPadding] :
        s.kernelWidth <= s.inputWidth + 2 * s.padding}

AdvancedCalls ==
    UNION {{[fn |-> "he_convolution_advanced", shape |-> s, image |-> d[1],
             rawKernel |-> Kernel4(d[2], s.outputChannels, s.inputChannels,
                                   s.kernelWidth),
             biasVec |-> BiasVec(s.outputChannels)] : d \in ConvData(s)} :
           s \in AdvancedShapes}

\* the caller's encodings: the kernel values over the padded tile, the bias
\* over the output tile
KernelDataOf(c) ==
    LET padded_width == c.shape.inputWidth + 2 * c.shape.padding
    IN  Tup([o \in 1..c.shape.outputChannels |->
                encode_kernel(c.rawKernel[o], padded_width * padded_width)],
            c.shape.outputChannels)

BiasOf(c) ==
    LET outW == c.shape.inputWidth + 2 * c.shape.padding
                - c.shape.kernelWidth + 1
    IN  encode_bais_input(c.biasVec, outW * outW)

InitAdvanced == call \in AdvancedCalls /\ ret = NoValue /\ DriverIdle

\* a call whose arguments make he_convolution read kernelData outside its
\* bounds has no defined result; one that leaves no output row ends in the
\* backend's exception for the empty sum
RunConvolutionAdvanced ==
    /\ call.fn = "he_convolution_advanced" /\ pc = 0
    /\ LET s == call.shape
           args == he_convolution_advanced_call(
                       s.inputWidth, s.inputChannels, s.outputChannels,
                       s.kernelWidth, s.padding, 1)
           input == Plain(encode_input(call.image))
           passed == IF s.padding = 0 THEN input
                     ELSE he_convolution_advanced_padding(
                              input, s.inputWidth, s.inputChannels, s.padding)
       IN  /\ opLog' = Append(opLog, [op |-> "he_convolution",
                                      encryptedInput |-> passed,
                                      args |-> args])
           /\ IF ~InsideKernelData(KernelDataOf(call), args)
              THEN \E outcome \in {"SIGSEGV", "garbage"} :
                      ret' = [undefined |-> outcome]
              ELSE IF args.inputWidth < args.kernelWidth
              THEN ret' = [thrown |-> "EvalAddMany"]
              ELSE ret' = [value |->
                             he_convolution_advanced(
                                 input, KernelDataOf(call), BiasOf(call),
                                 s.inputWidth, s.inputChannels,
                                 s.outputChannels, s.kernelWidth, s.padding,
                                 1)]
    /\ pc' = 1
    /\ UNCHANGED <<call, ri, loaded, group, lastRot, failed, image, skRead,
                   decrypted>>

NextAdvanced == RunConvolutionAdvanced \/ ConvNextLayer
SpecAdvanced == InitAdvanced /\ [][NextAdvanced]_vars

\* the arguments under the names the caller gave them
SameNames(c, width) ==
    [inputWidth |-> width, inputChannels |-> c.shape.inputChannels,
     outputChannels |-> c.shape.outputChannels,
     kernelWidth |-> c.shape.kernelWidth, paddingLen |-> c.shape.padding,
     stride |-> 1]

AdvancedReturned(padding) ==
    /\ pc >= 1 /\ call.fn = "he_convolution_advanced"
    /\ call.shape.padding = padding

\* pixel (r, c) of channel i at slot i*(W+2p)^2 + (r+p)*(W+2p) + (c+p), zero
\* elsewhere
PaddedLayout(c) ==
    LET W  == c.shape.inputWidth
        p  == c.shape.padding
        Pw == W + 2 * p
    IN  Tup([e \in 1..ConvSlots |->
                LET i   == (e - 1) \div (Pw * Pw)
                    row == (((e - 1) % (Pw * Pw)) \div Pw) - p
                    col == ((e - 1) % Pw) - p
                IN  IF i < c.shape.inputChannels THEN Padded(c, i, row, col)
                    ELSE 0], ConvSlots)

\* C23: for the same input, weights and bias, he_convolution_optimized with
\* stride 1 and he_convolution_advanced with kernelWidth 3, padding 1 and
\* stride 1 produce the same output slots.
C23_OptimisedEqualsGeneric ==
    (AdvancedReturned(1) /\ call.shape.kernelWidth = 3) =>
        LET s == call.shape
            widthSq == s.inputWidth * s.inputWidth
            optimized ==
                he_convolution_optimized(
                    Plain(encode_input(call.image)),
                    Tup([o \in 1..s.outputChannels |->
                            encode_kernel_optimized(call.rawKernel[o],
                                                    widthSq)],
                        s.outputChannels),
                    encode_bais_input(call.biasVec, widthSq), s.inputWidth,
                    s.inputChannels, s.outputChannels, 1)
        IN  /\ DOMAIN ret = {"value"}
            /\ \A e \in 1..(s.outputChannels * widthSq) :
                  ret.value.slots[e] = optimized.slots[e]

\* C24: for padding p > 0, he_convolution_advanced builds the p-padded
\* layout and runs the generic convolution on it with tile width W + 2p and
\* the caller's inputChannels, outputChannels and kernelWidth.
C24_PaddedConvolution ==
    AdvancedReturned(1) =>
        /\ opLog[1].encryptedInput.slots = PaddedLayout(call)
        /\ opLog[1].args = SameNames(call, call.shape.inputWidth + 2)
        /\ ret = [value |->
                    he_convolution(Plain(PaddedLayout(call)),
                                   KernelDataOf(call), BiasOf(call),
                                   call.shape.inputWidth + 2,
                                   call.shape.inputChannels,
                                   call.shape.outputChannels,
                                   call.shape.kernelWidth, 1, 1)]

\* C27: for padding 0, he_convolution_advanced returns exactly what
\* he_convolution returns for the same arguments: each shape parameter
\* reaches the generic kernel in the position of the same name.
C27_PaddingZeroDelegation ==
    AdvancedReturned(0) =>
        /\ opLog[1].args = SameNames(call, call.shape.inputWidth)
        /\ ret = [value |->
                    he_convolution(Plain(encode_input(call.image)),
                                   KernelDataOf(call), BiasOf(call),
                                   call.shape.inputWidth,
                                   call.shape.inputChannels,
                                   call.shape.outputChannels,
                                   call.shape.kernelWidth, 0, 1)]

(***************************************************************************)
(* Pooling of feature maps of width 2.                                     *)
(***************************************************************************)
MaxSmallChannels == 3

he_avgpool_optimzed_with_multiple_channels(encryptedInput, inputWidth, inputChannels, kernelWidth, stride) ==
    LET kernelSq  == kernelWidth * kernelWidth
        inputSize == inputWidth * inputWidth
        rotated_ciphertexts ==
            <<encryptedInput, EvalRotate(encryptedInput, 1),
              EvalRotate(encryptedInput, inputWidth),
              EvalRotate(EvalRotate(encryptedInput, inputWidth), 1)>>
        sum_cipher ==
            EvalMultScaleMask(EvalAddMany(rotated_ciphertexts), kernelSq,
                              inputChannels * inputSize)
    IN  IF inputWidth <= 2
        THEN PoolSmall(sum_cipher, inputSize, inputChannels)
        ELSE downsample_with_multiple_channels(sum_cipher, inputWidth,
                                               stride, inputChannels)

SmallCalls ==
    UNION {{[fn |-> f, inputWidth |-> 2, channels |-> c, image |-> x,
             rotatePositions |-> 0] :
                <<f, x>> \in {"he_avgpool", "he_avgpool_optimzed",
                              "he_avgpool_optimzed_with_multiple_channels"}
                             \X ScaledImages(c * 4, 4)} :
           c \in 1..MaxSmallChannels}

InitSmall == call \in SmallCalls /\ ret = NoValue /\ DriverIdle

RunAvgPoolMultipleChannels ==
    /\ call.fn = "he_avgpool_optimzed_with_multiple_channels" /\ pc = 0
    /\ IF call.inputWidth <= 2 /\ call.channels = 1
       THEN ret' \in EmptyMerge
       ELSE ret' = [value |->
                      he_avgpool_optimzed_with_multiple_channels(
                          Encrypted(call.image), call.inputWidth,
                          call.channels, 2, 2)]
    /\ opLog' = Append(opLog,
                       Entry(Step("he_avgpool_optimzed_with_multiple_channels",
                                  "", "", 0, <<>>)))
    /\ pc' = 1
    /\ UNCHANGED <<call, ri, loaded, group, lastRot, failed, image, skRead,
                   decrypted>>

NextSmall == RunAvgPool \/ RunAvgPoolOptimized \/ RunAvgPoolMultipleChannels
SpecSmall == InitSmall /\ [][NextSmall]_vars

\* the mean of the four pixels of channel ch of the call's 2x2 maps
PooledAverage(c, ch) ==
    (Pixel(c, ch, 0, 0) + Pixel(c, ch, 0, 1) + Pixel(c, ch, 1, 0)
     + Pixel(c, ch, 1, 1)) \div 4

\* C25: when inputWidth <= 2, he_avgpool, he_avgpool_optimzed and
\* he_avgpool_optimzed_with_multiple_channels return a ciphertext in which
\* slot c holds the pooled average of channel c for every channel c,
\* channel 0 and inputChannels = 1 included.
C25_SmallWidthPooling ==
    (pc = 1 /\ call.inputWidth <= 2) =>
        /\ "value" \in DOMAIN ret
        /\ \A ch \in 0..(call.channels - 1) :
              ret.value.slots[ch + 1] = PooledAverage(call, ch)

(***************************************************************************)
(* FHEONANNController::he_relu.  Slot values are fixed-point numbers in    *)
(* units of 1 / ReluUnit, the scale is given in halves (scaleValue2 = 2 *  *)
(* scaleValue), so that 1.5 and 2.5 can be passed and every product and    *)
(* quotient below is exact.                                                *)
(***************************************************************************)
MaxReluScale == 4         \* scale values 0.5, 1, 1.5 .. MaxReluScale
ReluVectorSize == 2
ReluUnit == 24            \* 1.0; a multiple of 2 * 1, 2 * 2, 2 * 3, 2 * 4

\* the conversion of the double scaleValue to the int parameter scale_value
\* of generate_scale_mask
DoubleToInt(scaleValue2) == scaleValue2 \div 2

\* context->EvalChebyshevFunction(func, ct, -1, 1, polyDegree) with func(x) =
\* 0 for x < 0, scaleValue * x otherwise: the polynomial follows func between
\* the bounds and is some other value outside them
EvalChebyshevFunction(scaleValue2, ct, outside) ==
    [slots |-> Tup([i \in 1..Len(ct.slots) |->
                      LET x == ct.slots[i]
                      IN  IF x < 0 - ReluUnit \/ x > ReluUnit THEN outside
                          ELSE IF x < 0 THEN 0
                          ELSE (scaleValue2 * x) \div 2], Len(ct.slots)),
     depth |-> ct.depth + 1]

\* the ciphertext handed to the polynomial
he_relu_scaled(encryptedInput, scaleValue2, vectorSize) ==
    IF scaleValue2 > 2
    THEN EvalMultScaleMask(encryptedInput, DoubleToInt(scaleValue2),
                           vectorSize)
    ELSE encryptedInput

he_relu(encryptedInput, scaleValue2, vectorSize, outside) ==
    EvalChebyshevFunction(IF scaleValue2 > 2 THEN scaleValue2 ELSE 2,
                          he_relu_scaled(encryptedInput, scaleValue2,
                                         vectorSize),
                          outside)

ReluCalls ==
    [fn : {"he_relu"}, scaleValue2 : 1..(2 * MaxReluScale),
     input : [1..ReluVectorSize ->
                 {ReluUnit * v : v \in (0 - MaxReluScale)..MaxReluScale}]]

InitRelu == call \in ReluCalls /\ ret = NoValue /\ DriverIdle

RunRelu ==
    /\ call.fn = "he_relu" /\ pc = 0
    /\ LET input == Plain(Tup(call.input, ReluVectorSize))
           scaled == he_relu_scaled(input, call.scaleValue2, ReluVectorSize)
       IN  /\ opLog' = Append(opLog, [op |-> "EvalChebyshevFunction",
                                      encryptInn |-> scaled])
           /\ \E outside \in {0 - ReluUnit, 2 * MaxReluScale * ReluUnit} :
                 ret' = [value |-> he_relu(input, call.scaleValue2,
                                           ReluVectorSize, outside),
                         encryptedInput |-> input]
    /\ pc' = 1
    /\ UNCHANGED <<call, ri, loaded, group, lastRot, failed, image, skRead,
                   decrypted>>

NextRelu == RunRelu
SpecRelu == InitRelu /\ [][NextRelu]_vars

\* the slot value v lies between -scale and scale (between -1 and 1 for a
\* scale of at most 1)
InReluRange(v, scaleValue2) ==
    LET s2 == IF scaleValue2 > 2 THEN scaleValue2 ELSE 2
    IN  0 - (s2 * ReluUnit) <= 2 * v /\ 2 * v <= s2 * ReluUnit

\* C26: for every scale passed to he_relu, integer or fractional, the
\* pre-scale mask is 1 / scale and the approximated function is scale * x
\* for x >= 0 and 0 below, so an in-range slot value v >= 0 comes out as v
\* and a negative one as 0; for a scale of at most 1 nothing is multiplied
\* and the function is max(0, x).
C26_ReluScalingCancels ==
    (pc = 1 /\ call.fn = "he_relu") =>
        \A i \in 1..ReluVectorSize :
            InReluRange(call.input[i], call.scaleValue2) =>
                /\ opLog[1].encryptInn.slots[i] * call.scaleValue2
                      = IF call.scaleValue2 > 2 THEN 2 * call.input[i]
                        ELSE call.scaleValue2 * call.input[i]
                /\ ret.value.slots[i] = Max(0, call.input[i])

(***************************************************************************)
(* The ciphertext variable a kernel is called with, after the call.        *)
(***************************************************************************)
\* the ciphertext the caller passes
PassedInput(c) ==
    IF c.fn \in {"he_convolution", "he_convolution_optimized"}
    THEN Plain(encode_input(c.image))
    ELSE IF c.fn \in {"he_avgpool_optimzed", "he_globalavgpool"}
    THEN Encrypted(c.image)
    ELSE IF c.fn = "he_linear" THEN c.encryptedInput
    ELSE Plain(Tup(c.input, ReluVectorSize))

FrameKernels ==
    {"he_convolution", "he_convolution_optimized", "he_avgpool_optimzed",
     "he_globalavgpool", "he_linear", "he_relu"}

FrameCalls ==
    {c \in ConvCalls : c.shape.inputWidth = 3 /\ c.shape.outputChannels = 1}
    \cup {c \in PoolCalls :
             /\ c.fn \in FrameKernels /\ c.inputWidth <= 4
             /\ c.rotatePositions <= 1}
    \cup {c \in LinearCalls : c.fn = "he_linear" /\ c.rotatePositions = 1}
    \cup {c \in ReluCalls : c.scaleValue2 \in {2, 4}}

InitFrame == call \in FrameCalls /\ ret = NoValue /\ DriverIdle

NextFrame ==
    \/ RunConvolution
    \/ RunConvolutionOptimized
    \/ RunAvgPoolOptimized
    \/ RunGlobalAvgPool
    \/ RunLinear
    \/ RunRelu
SpecFrame == InitFrame /\ [][NextFrame]_vars

\* C28: after he_convolution, he_convolution_optimized, he_avgpool_optimzed,
\* he_globalavgpool, he_linear or he_relu returns, the ciphertext variable
\* the caller passed in holds the same slot contents as before the call.
C28_InputUnchanged ==
    (pc = 1 /\ call.fn \in FrameKernels /\ "encryptedInput" \in DOMAIN ret)
        => ret.encryptedInput.slots = PassedInput(call).slots

(***************************************************************************)
(* FHEONANNController::he_convolution_optimized_with_multiple_channels,    *)
(* statement by statement: which ciphertext variables hold a ciphertext,   *)
(* and which operands each backend operation is given.  loaded is the set  *)
(* of assigned ciphertext variables, ri is outCh, lastRot is innerCount    *)
(* and decrypted is outCount.                                              *)
(***************************************************************************)
MaxMultiLogW == 4         \* widths 4 .. 2^MaxMultiLogW
MaxMultiChannels == 3
MaxMultiGroups == 2       \* outputChannels / inputChannels

MultiCalls ==
    {[fn |-> "he_convolution_optimized_with_multiple_channels",
      inputWidth |-> Pow2(e), inputChannels |-> ci,
      outputChannels |-> g * ci] :
        e \in 2..MaxMultiLogW, ci \in 1..MaxMultiChannels,
        g \in 1..MaxMultiGroups}

\* a ciphertext variable, and the n elements of a vector of ciphertexts
Var(name) == <<name, 0>>
Indexed(name, n) == {<<name, i>> : i \in 0..(n - 1)}

\* the parameter is the only ciphertext variable that holds a ciphertext
\* on entry: Ctext mainResult, shortcutResult; and the vectors are empty
InitMulti ==
    /\ call \in MultiCalls /\ ret = NoValue
    /\ pc = 0 /\ ri = 0 /\ loaded = {Var("encryptedInput")} /\ group = ""
    /\ lastRot = 0 /\ failed = FALSE /\ opLog = <<>> /\ image = 0
    /\ skRead = FALSE /\ decrypted = 0

\* one backend operation with its ciphertext operands, and those of them
\* that hold no ciphertext
BackendOp(op, operands, assigned) ==
    [op |-> op, operands |-> operands, unassigned |-> operands \ assigned]

\* a backend operation on a null Ctext: the backend's exception, or a read
\* through the null pointer
NullOperand(op) == {[thrown |-> op], [undefined |-> "SIGSEGV"]}

\* first_shot, second_shot and the nine rotatedInputs
MultiPrecomputeRotations ==
    /\ call.fn = "he_convolution_optimized_with_multiple_channels" /\ pc = 0
    /\ opLog' = opLog \o
          <<BackendOp("EvalFastRotation", {Var("encryptedInput")}, loaded),
            BackendOp("EvalRotate", {Var("first_shot"), Var("second_shot")},
                      loaded \cup {Var("first_shot"), Var("second_shot")})>>
    /\ loaded' = loaded \cup {Var("first_shot"), Var("second_shot")}
                        \cup Indexed("rotatedInputs", 9)
    /\ pc' = 1
    /\ UNCHANGED <<call, ret, ri, group, lastRot, failed, image, skRead,
                   decrypted>>

\* the head of the loop over outCh: the body up to inChannelsResults, or,
\* after the last channel, the sum of mainResults plus the bias, returned
MultiConvolveChannel ==
    /\ call.fn = "he_convolution_optimized_with_multiple_channels" /\ pc = 1
    /\ IF ri < call.outputChannels
       THEN LET a1 == loaded \cup Indexed("kernelSum", 9)
                a2 == a1 \cup Indexed("convChannelSum", call.inputChannels)
            IN  /\ opLog' = opLog \o
                      <<BackendOp("EvalMult", Indexed("rotatedInputs", 9),
                                  loaded),
                        BackendOp("EvalAddMany", Indexed("kernelSum", 9),
                                  a1),
                        BackendOp("EvalAddMany",
                                  Indexed("convChannelSum",
                                          call.inputChannels), a2)>>
                /\ loaded' = a2 \cup {<<"inChannelsResults", lastRot>>}
                /\ pc' = 2 /\ ret' = ret
       ELSE /\ opLog' = Append(opLog,
                               BackendOp("EvalAddMany",
                                         Indexed("mainResults",
                                                 call.outputChannels
                                                 \div call.inputChannels),
                                         loaded))
            /\ loaded' = loaded \cup {Var("finalMainResult")}
            /\ ret' = [value |-> Var("finalMainResult")]
            /\ pc' = 4
    /\ UNCHANGED <<call, ri, group, lastRot, failed, image, skRead,
                   decrypted>>

\* else { innerCount++; } and the next outCh
MultiNextInnerChannel ==
    /\ call.fn = "he_convolution_optimized_with_multiple_channels" /\ pc = 2
    /\ lastRot # call.inputChannels - 1
    /\ lastRot' = lastRot + 1 /\ ri' = ri + 1 /\ pc' = 1
    /\ UNCHANGED <<call, ret, loaded, group, failed, opLog, image, skRead,
                   decrypted>>

\* if (innerCount == inputChannels - 1): mainResult summed, downsampled and
\* cleaned, shortcutResult cleaned, mainResults[outCount] placed
MultiCloseGroup ==
    /\ call.fn = "he_convolution_optimized_with_multiple_channels" /\ pc = 2
    /\ lastRot = call.inputChannels - 1
    /\ LET a1 == loaded \cup {Var("mainResult")}
       IN  /\ opLog' = opLog \o
                 <<BackendOp("EvalAddMany",
                             Indexed("inChannelsResults",
                                     call.inputChannels), loaded),
                   BackendOp("downsample_with_multiple_channels",
                             {Var("mainResult")}, a1),
                   BackendOp("EvalMult", {Var("mainResult")}, a1),
                   BackendOp("EvalMult", {Var("shortcutResult")}, a1)>>
           /\ IF Var("shortcutResult") \in a1
              THEN /\ loaded' = a1 \cup {<<"mainResults", decrypted>>}
                   /\ decrypted' = decrypted + 1 /\ lastRot' = 0
                   /\ ri' = ri + 1 /\ pc' = 1
                   /\ ret' = ret /\ failed' = failed
              ELSE /\ ret' \in NullOperand("EvalMult")
                   /\ loaded' = a1 /\ failed' = TRUE /\ pc' = 5
                   /\ UNCHANGED <<ri, lastRot, decrypted>>
    /\ UNCHANGED <<call, group, image, skRead>>

NextMulti ==
    \/ MultiPrecomputeRotations
    \/ MultiConvolveChannel
    \/ MultiNextInnerChannel
    \/ MultiCloseGroup
SpecMulti == InitMulti /\ [][NextMulti]_vars

\* C30: in he_convolution_optimized_with_multiple_channels, for every shape
\* with inputChannels >= 1 and outputChannels a positive multiple of
\* inputChannels, every ciphertext operand passed to a backend operation has
\* been assigned earlier in the call, and the call returns a result
\* ciphertext.
C30_NoUnassignedOperand ==
    call.fn = "he_convolution_optimized_with_multiple_channels" =>
        /\ \A i \in 1..Len(opLog) : opLog[i].unassigned = {}
        /\ ret # NoValue => DOMAIN ret = {"value"}

(***************************************************************************)
(* The key group at the start of each image of a batch.                    *)
(***************************************************************************)
\* the first call of resnet20() that rotates
FirstKernel ==
    CHOOSE i \in 1..Len(resnet20) :
        /\ resnet20[i].rots # <<>>
        /\ \A j \in 1..(i - 1) : resnet20[j].rots = <<>>

\* C29: when the server evaluates a batch of images one after another, the
\* first kernel of every image, not only of the first, runs with
\* rotation-key group 1 loaded: the group left by the previous image's last
\* layers is replaced before any rotation of the next image.
C29_KeyGroupAtImageStart ==
    (Running(resnet20) /\ pc <= FirstKernel
        /\ resnet20[pc].op # "harness_read_evaluation_keys") =>
            /\ group = "layer1_rk.bin"
            /\ loaded = Range(resnet20_generate_rotation_keys["layer1_rk.bin"])

\* the first kernel of the second image has made all its rotations under
\* group 1, the first image having ended under group 4
C29_Witness ==
    /\ image = 2 /\ pc = FirstKernel /\ ~failed
    /\ ri = Len(resnet20[pc].rots) /\ decrypted = 1
    /\ group = "layer1_rk.bin"

=============================================================================
